---- MODULE Spec2Model ----
(***************************************************************************)
(* Model of the nether-swap relayer: the order store (SwapOrderService),   *)
(* the swap orchestration of RelayerService (executeEvmSwapOrder,          *)
(* executeSuiSwap, revealSecret, waitUntilTime) and the time-locks of the  *)
(* escrows the chain adapters deploy.                                      *)
(*                                                                         *)
(* Every asynchronous invocation is a task; a task takes one step per      *)
(* stretch of code between two awaits.  An adapter call is invoked in the  *)
(* step that reaches it and returns (successfully or with an error) in a   *)
(* later step, so other tasks and the clock interleave with it.            *)
(***************************************************************************)
EXTENDS Integers, Sequences, FiniteSets, TLC

\* ------------------------------------------------------------------------
\* Bounds of the model
\* ------------------------------------------------------------------------
MaxOrders == 1
MaxTasks == 2
MaxTime == 25
TickSeconds == 10
DigestLen == 3

MaxSends == 3
MaxStored == 2
MaxDate == 1
MaxCreates == 2
MaxDraw == 1
MaxObjects == 2

OrderHashes == 1..MaxOrders
TaskIds == 1..MaxTasks
Senders == 1..MaxSends
StoredHashes == 1..MaxStored

\* ------------------------------------------------------------------------
\* Program constants
\* ------------------------------------------------------------------------
EVM_CHAIN == 42161
SUI_CHAIN == 101
SUI_TEST_CHAIN == 1

\* Sdk.TimeLocks.new({...}) of createEvmCrossChainOrder / createDstImmutables (seconds)
srcWithdrawal == 5
srcPublicWithdrawal == 120
srcCancellation == 121
srcPublicCancellation == 122
dstWithdrawal == 10
dstPublicWithdrawal == 100
dstCancellation == 101

\* Move constants (milliseconds)
HOUR == 3600000
SRC_WITHDRAWAL_START_DURATION == 15000
SRC_CANCELLATION_DURATION == HOUR * 3
DST_WITHDRAWAL_DURATION == 15000
DST_CANCELLATION_DURATION == HOUR * 3

\* ------------------------------------------------------------------------
\* Strings, hex decoding and hashing
\*
\* A string is a sequence of two-character tokens: "0x" is the prefix, "a1"
\* and "b2" are lower-case hex pairs, "A1" is the upper-case spelling of
\* "a1", "zz" is a pair that is not hex; "61", "31", "62", "32" are the hex
\* pairs of the characters a, 1, b, 2.  A byte is a number.
\* ------------------------------------------------------------------------
HexByte(c) ==
    CASE c = "a1" -> 161
      [] c = "A1" -> 161
      [] c = "b2" -> 178
      [] c = "61" -> 97
      [] c = "31" -> 49
      [] c = "62" -> 98
      [] c = "32" -> 50
      [] OTHER -> -1

IsHexPair(c) == HexByte(c) # -1

\* Buffer.from(s, 'hex'): decodes pairs up to the first pair that is not hex
RECURSIVE BufferFromHex(_)
BufferFromHex(s) ==
    IF s = <<>> \/ ~IsHexPair(Head(s)) THEN <<>>
    ELSE <<HexByte(Head(s))>> \o BufferFromHex(Tail(s))

\* s.replace('0x', ''): removes the first occurrence of "0x"
RECURSIVE Replace0x(_)
Replace0x(s) ==
    IF s = <<>> THEN <<>>
    ELSE IF Head(s) = "0x" THEN Tail(s)
    ELSE <<Head(s)>> \o Replace0x(Tail(s))

\* lower-case hex spelling of a byte sequence
ToHex(bytes) ==
    [i \in 1..Len(bytes) |->
        CASE bytes[i] = 161 -> "a1"
          [] bytes[i] = 97 -> "61"
          [] bytes[i] = 49 -> "31"
          [] bytes[i] = 98 -> "62"
          [] bytes[i] = 50 -> "32"
          [] OTHER -> "b2"]

\* ethers.toUtf8Bytes(s): the bytes of the characters of the string
RECURSIVE toUtf8Bytes(_)
toUtf8Bytes(s) ==
    IF s = <<>> THEN <<>>
    ELSE (CASE Head(s) = "a1" -> <<97, 49>>
            [] Head(s) = "b2" -> <<98, 50>>
            [] Head(s) = "61" -> <<54, 49>>
            [] Head(s) = "31" -> <<51, 49>>
            [] OTHER -> <<122, 122>>) \o toUtf8Bytes(Tail(s))

\* The digest of a byte sequence: DigestLen bytes, different for different
\* inputs of fewer than DigestLen bytes (the input, an end marker, padding).
Digest(bytes) ==
    [i \in 1..DigestLen |->
        IF i <= Len(bytes) THEN bytes[i]
        ELSE IF i = Len(bytes) + 1 THEN 178 ELSE 161]

\* ethers.keccak256(bytes): "0x" and the lower-case hex of the digest
Keccak256(bytes) == <<"0x">> \o ToHex(Digest(bytes))

\* Sdk.HashLock.fromString(s) accepts "0x" followed by exactly one digest of hex
HashLockValid(s) ==
    /\ Len(s) = DigestLen + 1
    /\ s[1] = "0x"
    /\ \A i \in 2..Len(s) : IsHexPair(s[i])

\* HashLock.toBuffer() of an accepted string
HashLockBytes(s) == BufferFromHex(Tail(s))

\* ------------------------------------------------------------------------
\* Inputs
\* ------------------------------------------------------------------------
TheSecret == <<"a1">>
TheLock == Keccak256(BufferFromHex(TheSecret))

UpperCase(s) == [i \in 1..Len(s) |-> IF s[i] = "a1" THEN "A1" ELSE s[i]]

\* the secret, another secret, and the secret followed by a non-hex pair
SecretInputs == {TheSecret, <<"b2">>, <<"a1", "zz">>}

\* the client: generateHashLock() for the secret it drew, the hex string of
\* random bytes
generateHashLock(secret) == Keccak256(toUtf8Bytes(secret))

\* the secrets the client draws, and what a reveal can be called with: these
\* and the hex spelling of the characters of one of them
ClientSecrets == {<<"a1">>, <<"b2">>}
RevealInputs == ClientSecrets \cup {ToHex(toUtf8Bytes(<<"a1">>))}

\* every invocation of executeEvmSwapOrder passes a signature of its own
SignatureOf(t) == <<"sig", t>>

Intent(src, dst, lock) == [srcChainId |-> src, dstChainId |-> dst, hashLock |-> lock]

\* the intents of the two supported directions, and two with a hash-lock
\* spelt differently
UserIntents ==
    { Intent(EVM_CHAIN, SUI_CHAIN, TheLock),
      Intent(SUI_CHAIN, EVM_CHAIN, TheLock),
      Intent(EVM_CHAIN, SUI_CHAIN, UpperCase(TheLock)),
      Intent(SUI_CHAIN, EVM_CHAIN, Tail(TheLock)) }

\* ------------------------------------------------------------------------
\* State
\* ------------------------------------------------------------------------
VARIABLES
    orders,         \* SwapOrderService.orders: order hash -> order record
    evmSwapOrders,  \* SwapOrderService.evmSwapOrders: order hash -> EVM order record
    shared,         \* hashes whose entries in the two maps are one and the same object
    tasks,          \* the invocations of executeEvmSwapOrder, executeSuiSwap, revealSecret
                    \* (calls: the adapter operations the invocation has invoked)
    adapter,        \* per order and adapter operation: calls invoked, returned, failed
    escrows,        \* the escrows the adapters have deployed on the two chains
    now,            \* the clock, Unix seconds
    sends,          \* the invocations of EvmClient.send
    signer,         \* the account of EvmClient.signer on its chain: transactions
                    \* mined (count) and transactions pending (pool)
    userOrders,     \* SwapOrderService.userOrders: user address -> order hashes
    date,           \* what new Date() answers, milliseconds
    reply,          \* what the last getOrdersByUser call returned, or what the
                    \* last request to a build route or GET /:id was answered
    clock,          \* sui::clock::Clock: timestamp_ms
    objects,        \* the shared objects of package htlc on Sui: object id -> object
    consumed,       \* object id -> the functions that have destructured the object
    effects         \* the last transaction on package htlc: its call, the object
                    \* it was given, its abort code (0: success) and its transfers

vars == <<orders, evmSwapOrders, shared, tasks, adapter, escrows, now, sends, signer,
          userOrders, date, reply, clock, objects, consumed, effects>>

\* the state of the Sui chain
suiVars == <<clock, objects, consumed, effects>>

\* the state of the backend
backendVars == <<orders, evmSwapOrders, shared, tasks, adapter, escrows, now, sends,
                 signer, userOrders, date, reply>>

\* an optional value is <<>> (undefined) or <<v>>
None == <<>>
Some(v) == <<v>>
IsSet(x) == x # <<>>

\* package htlc published, no escrow or builder created yet
SuiInit ==
    /\ clock = 0
    /\ objects = <<>>
    /\ consumed = <<>>
    /\ effects = None

Ops == {"deploySrc", "deployDst", "withdrawSrc", "withdrawDst"}

\* ------------------------------------------------------------------------
\* SwapOrderService
\* ------------------------------------------------------------------------
NewOrder(h, userIntent, isEvm) ==
    [ orderHash |-> h,
      userIntent |-> userIntent,
      \* order.order of an EvmSwapOrder: the hash-lock the SDK order carries
      order |-> IF isEvm THEN Some(HashLockBytes(userIntent.hashLock)) ELSE None,
      signature |-> None,
      escrowSrcTxHash |-> None,
      escrowDstTxHash |-> None,
      escrowSrcWithdrawTxHash |-> None,
      escrowDstWithdrawTxHash |-> None,
      deployedAt |-> None,
      evmEscrowAddress |-> None,
      suiEscrowObjectId |-> None ]

\* addEscrowSrcTxHash writing the hash into the record of every order
addEscrowSrcTxHash_EveryOrder(os, h, txHash) ==
    [g \in DOMAIN os |-> [os[g] EXCEPT !.escrowSrcTxHash = Some(txHash)]]

\* orders.set(orderHash, {...order, field: value}) when the order is in the
\* map, nothing otherwise (the createdAt / updatedAt stamps of the record are
\* not part of this specification)
addEscrowSrcTxHash(os, h, txHash) ==
    IF h \in DOMAIN os
    THEN [os EXCEPT ![h].escrowSrcTxHash = Some(txHash)]
    ELSE os

addEscrowDstTxHash(os, h, txHash) ==
    IF h \in DOMAIN os
    THEN [os EXCEPT ![h].escrowDstTxHash = Some(txHash)]
    ELSE os

addSuiEscrowObjectId(os, h, objectId) ==
    IF h \in DOMAIN os
    THEN [os EXCEPT ![h].suiEscrowObjectId = Some(objectId)]
    ELSE os

addEscrowSrcWithdrawTxHash(os, h, txHash) ==
    IF h \in DOMAIN os
    THEN [os EXCEPT ![h].escrowSrcWithdrawTxHash = Some(txHash)]
    ELSE os

\* addEscrowDstWithdrawTxHash writing the field of the source withdrawal
addEscrowDstWithdrawTxHash_SrcField(os, h, txHash) ==
    IF h \in DOMAIN os
    THEN [os EXCEPT ![h].escrowSrcWithdrawTxHash = Some(txHash)]
    ELSE os

addEscrowDstWithdrawTxHash(os, h, txHash) ==
    IF h \in DOMAIN os
    THEN [os EXCEPT ![h].escrowDstWithdrawTxHash = Some(txHash)]
    ELSE os

addDeployedAt(os, h, deployedAt) ==
    IF h \in DOMAIN os
    THEN [os EXCEPT ![h].deployedAt = Some(deployedAt)]
    ELSE os

addEvmEscrowAddress(os, h, escrowAddress) ==
    IF h \in DOMAIN os
    THEN [os EXCEPT ![h].evmEscrowAddress = Some(escrowAddress)]
    ELSE os

\* updateOrderStatus(orderHash): looks the order up and returns it unchanged
updateOrderStatus(os, h) == os

\* ------------------------------------------------------------------------
\* Tasks
\* ------------------------------------------------------------------------
IdleTask ==
    [ kind |-> "idle", pc |-> "idle", h |-> 0, arg |-> None,
      srcTx |-> None, srcRef |-> None, srcWithdrawalTime |-> None,
      dstTx |-> None, dstRef |-> None, dstWithdrawalTime |-> None,
      snapshot |-> None, calls |-> {}, cause |-> "", result |-> "" ]

\* a new invocation takes the first idle task
FreeTask(t) == /\ tasks[t].kind = "idle"
               /\ \A u \in TaskIds : u < t => tasks[u].kind # "idle"

\* the adapter call counters
NoCalls == [op \in Ops |-> [invoked |-> 0, returned |-> 0, failed |-> 0]]
Invoke(ad, h, op) == [ad EXCEPT ![h][op].invoked = @ + 1]
Return(ad, h, op) == [ad EXCEPT ![h][op].returned = @ + 1]
Fail(ad, h, op) == [ad EXCEPT ![h][op].failed = @ + 1]

\* an invocation of EvmClient.send that has not started
IdleSend == [pc |-> "idle", nonce |-> None, result |-> ""]

Init ==
    /\ orders = <<>>
    /\ evmSwapOrders = <<>>
    /\ shared = {}
    /\ tasks = [t \in TaskIds |-> IdleTask]
    /\ adapter = [h \in OrderHashes |-> NoCalls]
    /\ escrows = {}
    /\ now = 0
    /\ sends = [s \in Senders |-> IdleSend]
    /\ signer = [count |-> 0, pool |-> {}]
    /\ userOrders = <<>>
    /\ date = 0
    /\ reply = None
    /\ SuiInit

\* the clock advances
Tick ==
    /\ now + TickSeconds <= MaxTime
    /\ now' = now + TickSeconds
    /\ UNCHANGED <<orders, evmSwapOrders, shared, tasks, adapter, escrows, sends, signer, userOrders, date, reply>>
    /\ UNCHANGED suiVars

\* ------------------------------------------------------------------------
\* Chain adapters: what a confirmed deployment leaves on the chain
\* ------------------------------------------------------------------------
\* the Sui clock, milliseconds
SuiClockMs == now * 1000

\* EvmResolver.deployEscrowSrc: the escrow of the filled order, with the
\* order's source time-locks counted from the block timestamp
EvmSrcEscrow(t, h, hashLock) ==
    [ task |-> t, order |-> h, side |-> "src", chain |-> "evm",
      hashLock |-> hashLock,
      deployedAt |-> now,
      withdrawalMs |-> (now + srcWithdrawal) * 1000,
      cancellationMs |-> (now + srcCancellation) * 1000 ]

\* EvmResolver.deployEscrowDst: the escrow of the immutables, with their
\* destination time-locks counted from the block timestamp
EvmDstEscrow(t, h, hashLock) ==
    [ task |-> t, order |-> h, side |-> "dst", chain |-> "evm",
      hashLock |-> hashLock,
      deployedAt |-> now,
      withdrawalMs |-> (now + dstWithdrawal) * 1000,
      cancellationMs |-> (now + dstCancellation) * 1000 ]

\* escrow_src::new_escrow_src
SuiSrcEscrow(t, h, hashLock) ==
    [ task |-> t, order |-> h, side |-> "src", chain |-> "sui",
      hashLock |-> hashLock,
      deployedAt |-> SuiClockMs \div 1000,
      withdrawalMs |-> SuiClockMs + SRC_WITHDRAWAL_START_DURATION,
      cancellationMs |-> SuiClockMs + SRC_CANCELLATION_DURATION ]

\* escrow_dst::new_escrow_dst
SuiDstEscrow(t, h, hashLock) ==
    [ task |-> t, order |-> h, side |-> "dst", chain |-> "sui",
      hashLock |-> hashLock,
      deployedAt |-> SuiClockMs \div 1000,
      withdrawalMs |-> SuiClockMs + DST_WITHDRAWAL_DURATION,
      cancellationMs |-> SuiClockMs + DST_CANCELLATION_DURATION ]

\* SuiResolver: withdrawAt = BigInt(escrowCreatedEvent.withdrawal_time) / 1000n
SuiWithdrawAt(escrow) == escrow.withdrawalMs \div 1000

\* transaction hashes and escrow references are named after the call that made them
TxHash(t, op) == <<"tx", t, op>>
EscrowRef(t, chain, side) == <<chain, t, side>>

\* ------------------------------------------------------------------------
\* RelayerService: EVM -> Sui
\* ------------------------------------------------------------------------
\* waitUntilTime(targetTime) returns once the loop condition
\* getCurrentUnixTime() < targetTime is false
waitUntilTime(targetTime) == ~(now < targetTime)

\* the hash the next order gets
FreshHash == CHOOSE h \in OrderHashes \ DOMAIN orders :
                 \A g \in OrderHashes \ DOMAIN orders : h <= g

\* buildEvmSwapOrder(userIntent)
buildEvmSwapOrder(userIntent) ==
    /\ OrderHashes \ DOMAIN orders # {}
    /\ IF userIntent.srcChainId = EVM_CHAIN /\ HashLockValid(userIntent.hashLock)
       THEN /\ orders' = (FreshHash :> NewOrder(FreshHash, userIntent, TRUE)) @@ orders
            /\ evmSwapOrders' = (FreshHash :> [signature |-> None]) @@ evmSwapOrders
            /\ shared' = shared \cup {FreshHash}
       ELSE UNCHANGED <<orders, evmSwapOrders, shared>>
    /\ UNCHANGED <<tasks, adapter, escrows, now, sends, signer, userOrders, date, reply>>
    /\ UNCHANGED suiVars

\* an invocation that has ended: what it threw or "ok", and the transaction
\* hashes it had obtained; its other locals are gone
Finished(task, cause, result) ==
    [task EXCEPT !.pc = "done", !.cause = cause, !.result = result,
                 !.srcRef = None, !.srcWithdrawalTime = None,
                 !.dstRef = None, !.dstWithdrawalTime = None,
                 !.snapshot = None]

\* the catch block of executeEvmSwapOrder / executeSuiSwap: whatever was
\* thrown, the caller gets RELAYER_EXECUTE_FAILED
ExecuteFailed(task, cause) == Finished(task, cause, "RELAYER_EXECUTE_FAILED")

\* the hash-lock executeEvmSwapOrder passes to the source deployment
\* (order.order.escrowExtension.hashLockInfo) and to the destination
\* deployment (order.order.hashLock.toBuffer())
EvmSrcHashLock(order) == order.order[1]
EvmDstHashLock(order) == order.order[1]

\* the fields of an order object that no store operation changes
Immutable(order) == [userIntent |-> order.userIntent, order |-> order.order]

\* executeEvmSwapOrder with the two deployments swapped: the destination
\* escrow is deployed first
executeEvmSwapOrder_DstFirst(t, h, signature) ==
    /\ FreeTask(t)
    /\ h \in DOMAIN evmSwapOrders
    /\ evmSwapOrders' = [evmSwapOrders EXCEPT ![h].signature = Some(signature)]
    /\ shared' = IF IsSet(evmSwapOrders[h].signature) THEN shared ELSE shared \ {h}
    /\ orders' = IF h \in shared
                 THEN [orders EXCEPT ![h].signature = Some(signature)]
                 ELSE orders
    /\ adapter' = Invoke(adapter, h, "deployDst")
    /\ tasks' = [tasks EXCEPT ![t] =
         [IdleTask EXCEPT !.kind = "execEvm", !.h = h,
                          !.snapshot = Some(Immutable(orders[h])),
                          !.calls = {"deployDst"},
                          !.pc = "awaitDeployDst"]]
    /\ UNCHANGED <<escrows, now, sends, signer, userOrders, date, reply>>
    /\ UNCHANGED suiVars

\* executeEvmSwapOrder(orderHash, signature), up to the first await
executeEvmSwapOrder(t, h, signature) ==
    /\ FreeTask(t)
    /\ IF h \notin DOMAIN evmSwapOrders
       THEN /\ tasks' = [tasks EXCEPT ![t] =
                 ExecuteFailed([IdleTask EXCEPT !.kind = "execEvm", !.h = h],
                               "ORDER_NOT_FOUND")]
            /\ orders' = updateOrderStatus(orders, h)
            /\ UNCHANGED <<evmSwapOrders, shared, adapter>>
       ELSE /\ evmSwapOrders' = [evmSwapOrders EXCEPT ![h].signature = Some(signature)]
            /\ shared' = IF IsSet(evmSwapOrders[h].signature) THEN shared
                         ELSE shared \ {h}
            /\ orders' = IF h \in shared
                         THEN [orders EXCEPT ![h].signature = Some(signature)]
                         ELSE orders
            /\ adapter' = Invoke(adapter, h, "deploySrc")
            /\ tasks' = [tasks EXCEPT ![t] =
                 [IdleTask EXCEPT !.kind = "execEvm", !.h = h,
                                  !.snapshot = Some(Immutable(orders[h])),
                                  !.calls = {"deploySrc"},
                                  !.pc = "awaitDeploySrc"]]
    /\ UNCHANGED <<escrows, now, sends, signer, userOrders, date, reply>>
    /\ UNCHANGED suiVars

\* srcResolver.deployEscrowSrc(order) returned [escrowSrcTxHash, escrowAddress, deployedAt]
executeEvm_SrcDeployed(t) ==
    LET task == tasks[t]
        h == task.h
        escrow == EvmSrcEscrow(t, h, EvmSrcHashLock(task.snapshot[1]))
    IN  /\ task.kind = "execEvm" /\ task.pc = "awaitDeploySrc"
        /\ escrows' = escrows \cup {escrow}
        /\ orders' = addDeployedAt(
                        addEvmEscrowAddress(orders, h, EscrowRef(t, "evm", "src")),
                        h, escrow.deployedAt)
        /\ shared' = shared \ {h}
        /\ adapter' = Invoke(Return(adapter, h, "deploySrc"), h, "deployDst")
        /\ tasks' = [tasks EXCEPT ![t].srcTx = Some(TxHash(t, "deploySrc")),
                                  ![t].srcRef = Some(EscrowRef(t, "evm", "src")),
                                  ![t].srcWithdrawalTime = Some(escrow.deployedAt + srcWithdrawal),
                                  ![t].calls = @ \cup {"deployDst"},
                                  ![t].pc = "awaitDeployDst"]
        /\ UNCHANGED <<evmSwapOrders, now, sends, signer, userOrders, date, reply>>
        /\ UNCHANGED suiVars

\* this.suiResolver.deployEscrowDst(...) returned {txSignature, escrowObjectId, withdrawAt}
executeEvm_DstDeployed(t) ==
    LET task == tasks[t]
        h == task.h
        escrow == SuiDstEscrow(t, h, EvmDstHashLock(task.snapshot[1]))
    IN  /\ task.kind = "execEvm" /\ task.pc = "awaitDeployDst"
        /\ escrows' = escrows \cup {escrow}
        /\ adapter' = Return(adapter, h, "deployDst")
        /\ tasks' = [tasks EXCEPT ![t].dstTx = Some(TxHash(t, "deployDst")),
                                  ![t].dstRef = Some(EscrowRef(t, "sui", "dst")),
                                  ![t].dstWithdrawalTime = Some(SuiWithdrawAt(escrow)),
                                  ![t].pc = "waitDst"]
        /\ UNCHANGED <<orders, evmSwapOrders, shared, now, sends, signer, userOrders, date, reply>>
        /\ UNCHANGED suiVars

\* await this.waitUntilTime(dstWithdrawalTime) is over
executeEvm_DstWaited(t) ==
    LET task == tasks[t]
        h == task.h
    IN  /\ task.kind = "execEvm" /\ task.pc = "waitDst"
        /\ waitUntilTime(task.dstWithdrawalTime[1])
        /\ orders' = addSuiEscrowObjectId(
                        addEscrowDstTxHash(orders, h, task.dstTx[1]),
                        h, task.dstRef[1])
        /\ shared' = shared \ {h}
        /\ tasks' = [tasks EXCEPT ![t].pc = "waitSrc"]
        /\ UNCHANGED <<evmSwapOrders, adapter, escrows, now, sends, signer, userOrders, date, reply>>
        /\ UNCHANGED suiVars

\* await this.waitUntilTime(srcWithdrawalTime) is over
executeEvm_SrcWaited(t) ==
    LET task == tasks[t]
        h == task.h
    IN  /\ task.kind = "execEvm" /\ task.pc = "waitSrc"
        /\ waitUntilTime(task.srcWithdrawalTime[1])
        /\ orders' = addEscrowSrcTxHash(orders, h, task.srcTx[1])
        /\ shared' = shared \ {h}
        /\ tasks' = [tasks EXCEPT ![t] = Finished(task, "", "ok")]
        /\ UNCHANGED <<evmSwapOrders, adapter, escrows, now, sends, signer, userOrders, date, reply>>
        /\ UNCHANGED suiVars

\* the adapter call an execute invocation awaits throws
AwaitedOp(task) ==
    CASE task.pc = "awaitDeploySrc" -> "deploySrc"
      [] task.pc = "awaitDeployDst" -> "deployDst"
      [] task.pc = "awaitWithdrawSrc" -> "withdrawSrc"
      [] task.pc = "awaitWithdrawDst" -> "withdrawDst"

execute_AdapterThrows(t) ==
    LET task == tasks[t]
    IN  /\ task.kind \in {"execEvm", "execSui"}
        /\ task.pc \in {"awaitDeploySrc", "awaitDeployDst"}
        /\ adapter' = Fail(adapter, task.h, AwaitedOp(task))
        /\ orders' = updateOrderStatus(orders, task.h)
        /\ tasks' = [tasks EXCEPT ![t] = ExecuteFailed(task, "ADAPTER_ERROR")]
        /\ UNCHANGED <<evmSwapOrders, shared, escrows, now, sends, signer, userOrders, date, reply>>
        /\ UNCHANGED suiVars

\* ------------------------------------------------------------------------
\* RelayerService: Sui -> EVM
\* ------------------------------------------------------------------------
\* RelayerService.resolvers after RelayerService.create()
Resolvers == {EVM_CHAIN}

\* getResolver(chainId) throws UNSUPPORTED_CHAIN for a chain without resolver
getResolver(chainId) == chainId \in Resolvers

\* executeSuiSwap: hashlockBytes =
\*   new Uint8Array(Buffer.from(swap.userIntent.hashLock.replace('0x', ''), 'hex'))
SuiSrcHashLock(userIntent) == BufferFromHex(Replace0x(userIntent.hashLock))

\* createDstImmutables decoding the hash-lock string with its "0x" prefix
createDstImmutables_Unstripped(userIntent) ==
    [ ok |-> TRUE, hashLock |-> BufferFromHex(userIntent.hashLock) ]

\* createDstImmutables(userIntent, order, resolverAddress, deployedAt): throws
\* when Sdk.HashLock.fromString rejects the string
createDstImmutables(userIntent) ==
    [ ok |-> HashLockValid(userIntent.hashLock),
      hashLock |-> HashLockBytes(userIntent.hashLock) ]

\* POST /sui_to_eth: newSuiSwapOrder(userIntent), then executeSuiSwap(swap, order)
\* up to the first await
executeSuiSwap(t, userIntent) ==
    /\ FreeTask(t)
    /\ OrderHashes \ DOMAIN orders # {}
    /\ orders' = (FreshHash :> NewOrder(FreshHash, userIntent, FALSE)) @@ orders
    /\ adapter' = Invoke(adapter, FreshHash, "deploySrc")
    /\ tasks' = [tasks EXCEPT ![t] =
         [IdleTask EXCEPT !.kind = "execSui", !.h = FreshHash,
                          !.snapshot = Some([userIntent |-> userIntent, order |-> None]),
                          !.calls = {"deploySrc"},
                          !.pc = "awaitDeploySrc"]]
    /\ UNCHANGED <<evmSwapOrders, shared, escrows, now, sends, signer, userOrders, date, reply>>
    /\ UNCHANGED suiVars

\* this.suiResolver.deployEscrowSrc(...) returned
\* {txSignature, escrowObjectId, deployedAt, withdrawAt}
executeSui_SrcDeployed(t) ==
    LET task == tasks[t]
        h == task.h
        userIntent == task.snapshot[1].userIntent
        escrow == SuiSrcEscrow(t, h, SuiSrcHashLock(userIntent))
        deployed == [task EXCEPT !.srcTx = Some(TxHash(t, "deploySrc")),
                                 !.srcRef = Some(EscrowRef(t, "sui", "src")),
                                 !.srcWithdrawalTime = Some(SuiWithdrawAt(escrow))]
        stored == addDeployedAt(orders, h, escrow.deployedAt)
    IN  /\ task.kind = "execSui" /\ task.pc = "awaitDeploySrc"
        /\ escrows' = escrows \cup {escrow}
        /\ IF ~getResolver(userIntent.dstChainId)
           THEN /\ adapter' = Return(adapter, h, "deploySrc")
                /\ orders' = updateOrderStatus(stored, h)
                /\ tasks' = [tasks EXCEPT ![t] = ExecuteFailed(deployed, "UNSUPPORTED_CHAIN")]
           ELSE IF ~createDstImmutables(userIntent).ok
           THEN /\ adapter' = Return(adapter, h, "deploySrc")
                /\ orders' = updateOrderStatus(stored, h)
                /\ tasks' = [tasks EXCEPT ![t] = ExecuteFailed(deployed, "INVALID_HASHLOCK")]
           ELSE /\ adapter' = Invoke(Return(adapter, h, "deploySrc"), h, "deployDst")
                /\ orders' = stored
                /\ tasks' = [tasks EXCEPT ![t] =
                     [deployed EXCEPT !.calls = @ \cup {"deployDst"},
                                      !.pc = "awaitDeployDst"]]
        /\ UNCHANGED <<evmSwapOrders, shared, now, sends, signer, userOrders, date, reply>>
        /\ UNCHANGED suiVars

\* dstResolver.deployEscrowDst(immutables) returned
\* [escrowDstTxHash, escrowAddress, evmDeployedAt]
executeSui_DstDeployed(t) ==
    LET task == tasks[t]
        h == task.h
        immutables == createDstImmutables(task.snapshot[1].userIntent)
        escrow == EvmDstEscrow(t, h, immutables.hashLock)
    IN  /\ task.kind = "execSui" /\ task.pc = "awaitDeployDst"
        /\ escrows' = escrows \cup {escrow}
        /\ orders' = addDeployedAt(orders, h, escrow.deployedAt)
        /\ adapter' = Return(adapter, h, "deployDst")
        /\ tasks' = [tasks EXCEPT ![t].dstTx = Some(TxHash(t, "deployDst")),
                                  ![t].dstRef = Some(EscrowRef(t, "evm", "dst")),
                                  ![t].dstWithdrawalTime = Some(escrow.deployedAt + dstWithdrawal),
                                  ![t].pc = "waitDst"]
        /\ UNCHANGED <<evmSwapOrders, shared, now, sends, signer, userOrders, date, reply>>
        /\ UNCHANGED suiVars

\* await this.waitUntilTime(dstWithdrawalTime) is over
executeSui_DstWaited(t) ==
    LET task == tasks[t]
        h == task.h
    IN  /\ task.kind = "execSui" /\ task.pc = "waitDst"
        /\ waitUntilTime(task.dstWithdrawalTime[1])
        /\ orders' = addEvmEscrowAddress(
                        addEscrowDstTxHash(orders, h, task.dstTx[1]),
                        h, task.dstRef[1])
        /\ tasks' = [tasks EXCEPT ![t].pc = "waitSrc"]
        /\ UNCHANGED <<evmSwapOrders, shared, adapter, escrows, now, sends, signer, userOrders, date, reply>>
        /\ UNCHANGED suiVars

\* await this.waitUntilTime(srcWithdrawalTime) is over
executeSui_SrcWaited(t) ==
    LET task == tasks[t]
        h == task.h
    IN  /\ task.kind = "execSui" /\ task.pc = "waitSrc"
        /\ waitUntilTime(task.srcWithdrawalTime[1])
        /\ orders' = addSuiEscrowObjectId(
                        addEscrowSrcTxHash(orders, h, task.srcTx[1]),
                        h, task.srcRef[1])
        /\ tasks' = [tasks EXCEPT ![t] = Finished(task, "", "ok")]
        /\ UNCHANGED <<evmSwapOrders, shared, adapter, escrows, now, sends, signer, userOrders, date, reply>>
        /\ UNCHANGED suiVars

\* ------------------------------------------------------------------------
\* RelayerService: revealSecret
\* ------------------------------------------------------------------------
\* the comparison of revealSecret with === in place of !==
SecretMatches_Inverted(order, secret) ==
    Keccak256(BufferFromHex(secret)) # order.userIntent.hashLock

\* secretHash !== order.userIntent.hashLock is false
SecretMatches(order, secret) ==
    Keccak256(BufferFromHex(secret)) = order.userIntent.hashLock

\* the check of revealSecret without its first operand
EscrowsDeployed_OnlyDst(order) == IsSet(order.escrowDstTxHash)

\* !order.escrowSrcTxHash || !order.escrowDstTxHash is false
EscrowsDeployed(order) ==
    IsSet(order.escrowSrcTxHash) /\ IsSet(order.escrowDstTxHash)

\* getChainResolver(chainId): the Sui wrapper for the Sui chain ids, else the
\* EVM wrapper of getResolver(chainId)
IsSuiChain(chainId) == chainId = SUI_CHAIN \/ chainId = SUI_TEST_CHAIN
getChainResolver(chainId) ==
    [ ok |-> IsSuiChain(chainId) \/ getResolver(chainId),
      chain |-> IF IsSuiChain(chainId) THEN "sui" ELSE "evm" ]

\* what a wrapper's withdrawEscrowSrc / withdrawEscrowDst needs of the order
\* to build its call: the EVM wrapper the SDK order (source side only), the
\* escrow address and deployedAt, the Sui wrapper the escrow object id
WrapperAccepts(chain, side, order) ==
    IF chain = "evm"
    THEN /\ IsSet(order.evmEscrowAddress)
         /\ IsSet(order.deployedAt)
         /\ (side = "src" => IsSet(order.order))
         /\ (side = "dst" => HashLockValid(order.userIntent.hashLock))
    ELSE IsSet(order.suiEscrowObjectId)

\* the catch block of revealSecret: whatever was thrown, the caller gets
\* RELAYER_REVEAL_FAILED
RevealFailed(task, cause) == Finished(task, cause, "RELAYER_REVEAL_FAILED")

\* revealSecret rolling the order back when it rejects a secret: the
\* recorded deployments are dropped
revealSecret_RollsBack(t, h, secret) ==
    LET task == [IdleTask EXCEPT !.kind = "reveal", !.h = h, !.arg = Some(secret)]
    IN  /\ FreeTask(t)
        /\ IF h \notin DOMAIN orders
           THEN /\ tasks' = [tasks EXCEPT ![t] = RevealFailed(task, "ORDER_NOT_FOUND")]
                /\ UNCHANGED <<adapter, orders>>
           ELSE IF ~SecretMatches(orders[h], secret)
           THEN /\ tasks' = [tasks EXCEPT ![t] = RevealFailed(task, "INVALID_SECRET")]
                /\ orders' = [orders EXCEPT ![h].escrowSrcTxHash = None,
                                            ![h].escrowDstTxHash = None]
                /\ UNCHANGED adapter
           ELSE IF ~EscrowsDeployed(orders[h])
           THEN /\ tasks' = [tasks EXCEPT ![t] = RevealFailed(task, "ESCROW_NOT_DEPLOYED")]
                /\ UNCHANGED <<adapter, orders>>
           ELSE IF ~getChainResolver(orders[h].userIntent.srcChainId).ok
                   \/ ~getChainResolver(orders[h].userIntent.dstChainId).ok
           THEN /\ tasks' = [tasks EXCEPT ![t] = RevealFailed(task, "UNSUPPORTED_CHAIN")]
                /\ UNCHANGED <<adapter, orders>>
           ELSE /\ tasks' = [tasks EXCEPT ![t] =
                     [task EXCEPT !.snapshot = Some(orders[h]),
                                  !.calls = {"withdrawSrc"},
                                  !.pc = "awaitWithdrawSrc"]]
                /\ adapter' = Invoke(adapter, h, "withdrawSrc")
                /\ UNCHANGED orders
        /\ UNCHANGED <<evmSwapOrders, shared, escrows, now, sends, signer, userOrders, date, reply>>
        /\ UNCHANGED suiVars

\* revealSecret(orderHash, secret), up to the first await
revealSecret(t, h, secret) ==
    LET task == [IdleTask EXCEPT !.kind = "reveal", !.h = h, !.arg = Some(secret)]
    IN  /\ FreeTask(t)
        /\ IF h \notin DOMAIN orders
           THEN /\ tasks' = [tasks EXCEPT ![t] = RevealFailed(task, "ORDER_NOT_FOUND")]
                /\ UNCHANGED adapter
           ELSE IF ~SecretMatches(orders[h], secret)
           THEN /\ tasks' = [tasks EXCEPT ![t] = RevealFailed(task, "INVALID_SECRET")]
                /\ UNCHANGED adapter
           ELSE IF ~EscrowsDeployed(orders[h])
           THEN /\ tasks' = [tasks EXCEPT ![t] = RevealFailed(task, "ESCROW_NOT_DEPLOYED")]
                /\ UNCHANGED adapter
           ELSE IF ~getChainResolver(orders[h].userIntent.srcChainId).ok
                   \/ ~getChainResolver(orders[h].userIntent.dstChainId).ok
           THEN /\ tasks' = [tasks EXCEPT ![t] = RevealFailed(task, "UNSUPPORTED_CHAIN")]
                /\ UNCHANGED adapter
           ELSE /\ tasks' = [tasks EXCEPT ![t] =
                     [task EXCEPT !.snapshot = Some(orders[h]),
                                  !.calls = {"withdrawSrc"},
                                  !.pc = "awaitWithdrawSrc"]]
                /\ adapter' = Invoke(adapter, h, "withdrawSrc")
        /\ UNCHANGED <<orders, evmSwapOrders, shared, escrows, now, sends, signer, userOrders, date, reply>>
        /\ UNCHANGED suiVars

\* srcResolver.withdrawEscrowSrc(order, secret) returned escrowSrcWithdrawTxHash
reveal_SrcWithdrawn(t) ==
    LET task == tasks[t]
        h == task.h
        order == task.snapshot[1]
    IN  /\ task.kind = "reveal" /\ task.pc = "awaitWithdrawSrc"
        /\ WrapperAccepts(getChainResolver(order.userIntent.srcChainId).chain, "src", order)
        /\ orders' = addEscrowSrcWithdrawTxHash(orders, h, TxHash(t, "withdrawSrc"))
        /\ shared' = shared \ {h}
        /\ adapter' = Invoke(Return(adapter, h, "withdrawSrc"), h, "withdrawDst")
        /\ tasks' = [tasks EXCEPT ![t].srcTx = Some(TxHash(t, "withdrawSrc")),
                                  ![t].calls = @ \cup {"withdrawDst"},
                                  ![t].pc = "awaitWithdrawDst"]
        /\ UNCHANGED <<evmSwapOrders, escrows, now, sends, signer, userOrders, date, reply>>
        /\ UNCHANGED suiVars

\* dstResolver.withdrawEscrowDst(order, secret) returned escrowDstWithdrawTxHash
reveal_DstWithdrawn(t) ==
    LET task == tasks[t]
        h == task.h
        order == task.snapshot[1]
    IN  /\ task.kind = "reveal" /\ task.pc = "awaitWithdrawDst"
        /\ WrapperAccepts(getChainResolver(order.userIntent.dstChainId).chain, "dst", order)
        /\ orders' = addEscrowDstWithdrawTxHash(orders, h, TxHash(t, "withdrawDst"))
        /\ shared' = shared \ {h}
        /\ adapter' = Return(adapter, h, "withdrawDst")
        /\ tasks' = [tasks EXCEPT ![t] =
                 Finished([task EXCEPT !.dstTx = Some(TxHash(t, "withdrawDst"))], "", "ok")]
        /\ UNCHANGED <<evmSwapOrders, escrows, now, sends, signer, userOrders, date, reply>>
        /\ UNCHANGED suiVars

\* the withdraw call a revealSecret invocation awaits throws
reveal_AdapterThrows(t) ==
    LET task == tasks[t]
    IN  /\ task.kind = "reveal"
        /\ task.pc \in {"awaitWithdrawSrc", "awaitWithdrawDst"}
        /\ adapter' = Fail(adapter, task.h, AwaitedOp(task))
        /\ tasks' = [tasks EXCEPT ![t] = RevealFailed(task, "ADAPTER_ERROR")]
        /\ UNCHANGED <<orders, evmSwapOrders, shared, escrows, now, sends, signer, userOrders, date, reply>>
        /\ UNCHANGED suiVars

\* ------------------------------------------------------------------------
\* EvmClient.send
\* ------------------------------------------------------------------------
\* send(param), up to await this.signer.getNonce()
send(s) ==
    /\ sends[s].pc = "idle"
    /\ \A u \in Senders : u < s => sends[u].pc # "idle"
    /\ sends' = [sends EXCEPT ![s].pc = "getNonce"]
    /\ UNCHANGED <<orders, evmSwapOrders, shared, tasks, adapter, escrows, now, signer, userOrders, date, reply>>
    /\ UNCHANGED suiVars

\* what signer.getNonce() can answer: the transaction count of the account,
\* without or with its pending transactions
NonceAnswers == {signer.count, signer.count + Cardinality(signer.pool)}

\* getNonce returned: param.nonce = nonce, and signer.sendTransaction is called
send_GotNonce(s) ==
    /\ sends[s].pc = "getNonce"
    /\ \E nonce \in NonceAnswers :
          sends' = [sends EXCEPT ![s].pc = "sendTransaction", ![s].nonce = Some(nonce)]
    /\ UNCHANGED <<orders, evmSwapOrders, shared, tasks, adapter, escrows, now, signer, userOrders, date, reply>>
    /\ UNCHANGED suiVars

\* the node takes a transaction whose nonce is not used: not below the
\* count of mined transactions, not that of a pending transaction
NonceFree(nonce) ==
    /\ nonce >= signer.count
    /\ \A tx \in signer.pool : tx.nonce # nonce

\* signer.sendTransaction returned: the transaction is pending, res.wait(3) begins
send_Accepted(s) ==
    /\ sends[s].pc = "sendTransaction"
    /\ NonceFree(sends[s].nonce[1])
    /\ signer' = [signer EXCEPT !.pool = @ \cup {[send |-> s, nonce |-> sends[s].nonce[1]]}]
    /\ sends' = [sends EXCEPT ![s].pc = "wait"]
    /\ UNCHANGED <<orders, evmSwapOrders, shared, tasks, adapter, escrows, now, userOrders, date, reply>>
    /\ UNCHANGED suiVars

\* signer.sendTransaction threw: the node refused the nonce
send_Rejected(s) ==
    /\ sends[s].pc = "sendTransaction"
    /\ ~NonceFree(sends[s].nonce[1])
    /\ sends' = [sends EXCEPT ![s].pc = "done", ![s].result = "error"]
    /\ UNCHANGED <<orders, evmSwapOrders, shared, tasks, adapter, escrows, now, signer, userOrders, date, reply>>
    /\ UNCHANGED suiVars

\* res.wait(3) returned a receipt: the pending transaction with the next
\* nonce was mined; send returns its hash or throws on a failed status
send_Mined(s, status) ==
    /\ sends[s].pc = "wait"
    /\ sends[s].nonce[1] = signer.count
    /\ signer' = [count |-> signer.count + 1,
                  pool |-> signer.pool \ {[send |-> s, nonce |-> sends[s].nonce[1]]}]
    /\ sends' = [sends EXCEPT ![s].pc = "done",
                              ![s].result = IF status THEN "ok" ELSE "error"]
    /\ UNCHANGED <<orders, evmSwapOrders, shared, tasks, adapter, escrows, now, userOrders, date, reply>>
    /\ UNCHANGED suiVars

\* ------------------------------------------------------------------------
\* SwapOrderService with the createdAt / updatedAt stamps of its records
\* ------------------------------------------------------------------------
UserAddresses == {"0xAB", "0xcd"}
toLowerCase(a) == IF a = "0xAB" THEN "0xab" ELSE a

TheTxHash == "0xtx"
TheDeployedAt == 7

\* the number of order hashes userOrders holds
Pushed == LET RECURSIVE Sum(_)
              Sum(as) == IF as = {} THEN 0
                         ELSE LET a == CHOOSE x \in as : TRUE
                              IN Len(userOrders[a]) + Sum(as \ {a})
          IN Sum(DOMAIN userOrders)

\* new Date() answers a later time
StoreTick ==
    /\ date < MaxDate
    /\ date' = date + 1
    /\ UNCHANGED <<orders, evmSwapOrders, shared, tasks, adapter, escrows, now,
                   sends, signer, userOrders, reply>>
    /\ UNCHANGED suiVars

\* userOrders.get(userAddress).push(orderHash), after set(userAddress, [])
\* for an address the map does not have
TrackOrder(uo, userAddress, h) ==
    IF userAddress \in DOMAIN uo
    THEN [uo EXCEPT ![userAddress] = Append(@, h)]
    ELSE (userAddress :> <<h>>) @@ uo

\* createEvmSwapOrder(orderData): the order data carry a hash the store
\* has, or the next one
createEvmSwapOrder(h, userAddress) ==
    LET order == NewOrder(h, [userAddress |-> userAddress]
                               @@ Intent(EVM_CHAIN, SUI_CHAIN, TheLock), TRUE)
                 @@ [createdAt |-> date, updatedAt |-> date]
    IN /\ Pushed < MaxCreates
       /\ \A g \in StoredHashes : g < h => g \in DOMAIN orders
       /\ orders' = (h :> order) @@ orders
       /\ evmSwapOrders' = (h :> [signature |-> None]) @@ evmSwapOrders
       /\ shared' = shared \cup {h}
       /\ userOrders' = TrackOrder(userOrders, toLowerCase(userAddress), h)
       /\ UNCHANGED <<tasks, adapter, escrows, now, sends, signer, date, reply>>
       /\ UNCHANGED suiVars

\* clearAllOrders(): orders and userOrders are emptied, evmSwapOrders is not
clearAllOrders ==
    /\ orders' = <<>>
    /\ userOrders' = <<>>
    /\ shared' = {}
    /\ UNCHANGED <<evmSwapOrders, tasks, adapter, escrows, now, sends, signer, date, reply>>
    /\ UNCHANGED suiVars

\* updatedAt: new Date() of the record an add* method puts into the map
Stamp(os, h) == IF h \in DOMAIN os THEN [os EXCEPT ![h].updatedAt = date] ELSE os

\* addEscrowSrcTxHash(orderHash, txHash)
store_addEscrowSrcTxHash(h, txHash) ==
    /\ orders' = Stamp(addEscrowSrcTxHash(orders, h, txHash), h)
    /\ shared' = shared \ {h}
    /\ UNCHANGED <<evmSwapOrders, tasks, adapter, escrows, now, sends, signer,
                   userOrders, date, reply>>
    /\ UNCHANGED suiVars

\* addDeployedAt(orderHash, deployedAt)
store_addDeployedAt(h, deployedAt) ==
    /\ orders' = Stamp(addDeployedAt(orders, h, deployedAt), h)
    /\ shared' = shared \ {h}
    /\ UNCHANGED <<evmSwapOrders, tasks, adapter, escrows, now, sends, signer,
                   userOrders, date, reply>>
    /\ UNCHANGED suiVars

\* Array.prototype.sort with (a, b) => b.createdAt.getTime() - a.createdAt.getTime():
\* a stable sort, an element goes behind those that do not compare after it
RECURSIVE InsertNewestFirst(_, _)
InsertNewestFirst(sorted, o) ==
    IF sorted = <<>> THEN <<o>>
    ELSE IF o.createdAt - Head(sorted).createdAt > 0
         THEN <<o>> \o sorted
         ELSE <<Head(sorted)>> \o InsertNewestFirst(Tail(sorted), o)

RECURSIVE SortNewestFirst(_)
SortNewestFirst(list) ==
    IF list = <<>> THEN <<>>
    ELSE InsertNewestFirst(SortNewestFirst(SubSeq(list, 1, Len(list) - 1)),
                           list[Len(list)])

\* getOrdersByUser without its sort
getOrdersByUser_Unsorted(userAddress) ==
    LET normalizedAddress == toLowerCase(userAddress)
        orderHashes == IF normalizedAddress \in DOMAIN userOrders
                       THEN userOrders[normalizedAddress] ELSE <<>>
        found == SelectSeq(orderHashes, LAMBDA h : h \in DOMAIN orders)
    IN [i \in 1..Len(found) |-> orders[found[i]]]

\* getOrdersByUser(userAddress)
getOrdersByUser(userAddress) ==
    LET normalizedAddress == toLowerCase(userAddress)
        orderHashes == IF normalizedAddress \in DOMAIN userOrders
                       THEN userOrders[normalizedAddress] ELSE <<>>
        found == SelectSeq(orderHashes, LAMBDA h : h \in DOMAIN orders)
    IN SortNewestFirst([i \in 1..Len(found) |-> orders[found[i]]])

\* the orders of a reply, each by its hash and the createdAt it was sorted by
Listed(list) ==
    [i \in 1..Len(list) |-> [orderHash |-> list[i].orderHash,
                             createdAt |-> list[i].createdAt]]

store_getOrdersByUser(userAddress) ==
    /\ reply' = Some([userAddress |-> userAddress,
                      orders |-> Listed(getOrdersByUser(userAddress))])
    /\ UNCHANGED <<orders, evmSwapOrders, shared, tasks, adapter, escrows, now,
                   sends, signer, userOrders, date>>
    /\ UNCHANGED suiVars

\* ------------------------------------------------------------------------
\* The build routes, and GET /:id
\* ------------------------------------------------------------------------
\* a user intent with its amount (tokenAmount, a number of units)
BuildIntent(src, dst, tokenAmount) ==
    [userAddress |-> "0xAB", tokenAmount |-> tokenAmount] @@ Intent(src, dst, TheLock)

\* the chains a request can name: the two the relayer serves and one it
\* does not
BuildChains == {EVM_CHAIN, SUI_CHAIN, 56}

BuildIntents ==
    { BuildIntent(EVM_CHAIN, SUI_CHAIN, 1),
      BuildIntent(EVM_CHAIN, SUI_CHAIN, 0),
      BuildIntent(EVM_CHAIN, EVM_CHAIN, 1),
      BuildIntent(EVM_CHAIN, 56, 1),
      BuildIntent(SUI_CHAIN, EVM_CHAIN, 1),
      BuildIntent(SUI_CHAIN, EVM_CHAIN, 0),
      BuildIntent(56, SUI_CHAIN, 1) }

\* what Sdk.randBigInt and Math.random can answer
Draws == 0..MaxDraw

\* orderHash(typedData): the hash of the order createEvmCrossChainOrder
\* built, different for orders that differ in the intent, the salt or the nonce
EvmOrderHash(userIntent, salt, nonce) == <<"evm", userIntent, salt, nonce>>

\* createSwapOrder: keccak256(toUtf8Bytes(JSON.stringify({...orderData, nonce})))
SuiOrderHash(userIntent, nonce) == <<"sui", userIntent, nonce>>

\* newSuiSwapOrder: userIntent.tokenAmount = (amount / 10 ** 9).toString()
amountInSui(tokenAmount) == <<tokenAmount, "/", 10, 9>>

\* the order hashes a request can name
BuildHashes ==
    {EvmOrderHash(userIntent, salt, nonce) :
        userIntent \in BuildIntents, salt \in Draws, nonce \in Draws}
    \cup {SuiOrderHash([userIntent EXCEPT !.tokenAmount = amountInSui(@)], nonce) :
             userIntent \in BuildIntents, nonce \in Draws}

\* what the last request was answered
Answer(route, status, orderHash) ==
    Some([route |-> route, status |-> status, orderHash |-> orderHash])

\* POST /eth_to_sui/build: buildEvmSwapOrder(userIntent).  The relayer checks
\* nothing but the source chain; sdkThrows: the SDK refuses to build the order
post_eth_to_sui_build(userIntent, salt, nonce, sdkThrows) ==
    LET h == EvmOrderHash(userIntent, salt, nonce)
        order == NewOrder(h, userIntent, TRUE) @@ [createdAt |-> date, updatedAt |-> date]
    IN  /\ Pushed < MaxCreates
        /\ IF userIntent.srcChainId # EVM_CHAIN
           THEN /\ reply' = Answer("eth_to_sui/build", 400, None)
                /\ UNCHANGED <<orders, evmSwapOrders, shared, userOrders>>
           ELSE IF ~getResolver(userIntent.srcChainId) \/ sdkThrows
           THEN /\ reply' = Answer("eth_to_sui/build", 400, None)
                /\ UNCHANGED <<orders, evmSwapOrders, shared, userOrders>>
           ELSE /\ orders' = (h :> order) @@ orders
                /\ evmSwapOrders' = (h :> [signature |-> None]) @@ evmSwapOrders
                /\ shared' = shared \cup {h}
                /\ userOrders' = TrackOrder(userOrders, toLowerCase(userIntent.userAddress), h)
                /\ reply' = Answer("eth_to_sui/build", 200, Some(h))
        /\ UNCHANGED <<tasks, adapter, escrows, now, sends, signer, date>>
        /\ UNCHANGED suiVars

\* POST /sui_to_any/build: the sponsored transaction suiResolver.buildSponsoredTx
\* built, or 500 when it threw; no order is created
post_sui_to_any_build(userIntent, built) ==
    /\ reply' = Answer("sui_to_any/build", IF built THEN 200 ELSE 500, None)
    /\ UNCHANGED <<orders, evmSwapOrders, shared, tasks, adapter, escrows, now,
                   sends, signer, userOrders, date>>
    /\ UNCHANGED suiVars

\* POST /sui_to_eth, up to its answer: newSuiSwapOrder(userIntent) and
\* createSwapOrder({userIntent})
newSuiSwapOrder(userIntent, nonce) ==
    LET converted == [userIntent EXCEPT !.tokenAmount = amountInSui(@)]
        h == SuiOrderHash(converted, nonce)
        order == NewOrder(h, converted, FALSE) @@ [createdAt |-> date, updatedAt |-> date]
    IN  /\ Pushed < MaxCreates
        /\ orders' = (h :> order) @@ orders
        /\ userOrders' = TrackOrder(userOrders, toLowerCase(userIntent.userAddress), h)
        /\ reply' = Answer("sui_to_eth", 200, Some(h))
        /\ UNCHANGED <<evmSwapOrders, shared, tasks, adapter, escrows, now,
                       sends, signer, date>>
        /\ UNCHANGED suiVars

\* GET /:id: getOrderByHash(orderHash), 404 when the store has no such order
get_order(h) ==
    /\ reply' = Answer("get", IF h \in DOMAIN orders THEN 200 ELSE 404,
                       IF h \in DOMAIN orders THEN Some(h) ELSE None)
    /\ UNCHANGED <<orders, evmSwapOrders, shared, tasks, adapter, escrows, now,
                   sends, signer, userOrders, date>>
    /\ UNCHANGED suiVars

\* ------------------------------------------------------------------------
\* Specification
\* ------------------------------------------------------------------------
Next ==
    \/ Tick
    \/ \E userIntent \in UserIntents : buildEvmSwapOrder(userIntent)
    \/ \E t \in TaskIds, h \in OrderHashes :
          executeEvmSwapOrder(t, h, SignatureOf(t))
    \/ \E t \in TaskIds : executeEvm_SrcDeployed(t)
    \/ \E t \in TaskIds : executeEvm_DstDeployed(t)
    \/ \E t \in TaskIds : executeEvm_DstWaited(t)
    \/ \E t \in TaskIds : executeEvm_SrcWaited(t)
    \/ \E t \in TaskIds, userIntent \in UserIntents : executeSuiSwap(t, userIntent)
    \/ \E t \in TaskIds : executeSui_SrcDeployed(t)
    \/ \E t \in TaskIds : executeSui_DstDeployed(t)
    \/ \E t \in TaskIds : executeSui_DstWaited(t)
    \/ \E t \in TaskIds : executeSui_SrcWaited(t)
    \/ \E t \in TaskIds : execute_AdapterThrows(t)
    \/ \E t \in TaskIds, h \in OrderHashes, secret \in SecretInputs :
          revealSecret(t, h, secret)
    \/ \E t \in TaskIds : reveal_SrcWithdrawn(t)
    \/ \E t \in TaskIds : reveal_DstWithdrawn(t)
    \/ \E t \in TaskIds : reveal_AdapterThrows(t)

Spec == Init /\ [][Next]_vars

\* EvmClient.send alone: the transactions the resolver sends through one client
SendNext ==
    \/ \E s \in Senders : send(s)
    \/ \E s \in Senders : send_GotNonce(s)
    \/ \E s \in Senders : send_Accepted(s)
    \/ \E s \in Senders : send_Rejected(s)
    \/ \E s \in Senders, status \in BOOLEAN : send_Mined(s, status)

SendSpec == Init /\ [][SendNext]_vars

\* SwapOrderService alone, called as the relayer and the routes call it
StoreNext ==
    \/ StoreTick
    \/ \E h \in StoredHashes, a \in UserAddresses : createEvmSwapOrder(h, a)
    \/ \E h \in StoredHashes : store_addEscrowSrcTxHash(h, TheTxHash)
    \/ \E h \in StoredHashes : store_addDeployedAt(h, TheDeployedAt)
    \/ \E a \in UserAddresses : store_getOrdersByUser(a)

StoreSpec == Init /\ [][StoreNext]_vars

\* the time a waiting execute invocation waits for
WaitTarget(t) ==
    IF tasks[t].pc = "waitDst" THEN tasks[t].dstWithdrawalTime[1]
    ELSE tasks[t].srcWithdrawalTime[1]

\* the loop of waitUntilTime is running: getCurrentUnixTime() < targetTime
Waiting(t) == tasks[t].pc \in {"waitDst", "waitSrc"} /\ now < WaitTarget(t)

\* the clock keeps advancing: up to MaxTime, and past it for as long as an
\* invocation waits for a time that has not come
ClockAdvances ==
    /\ now + TickSeconds <= MaxTime \/ \E t \in TaskIds : Waiting(t)
    /\ now' = now + TickSeconds
    /\ UNCHANGED <<orders, evmSwapOrders, shared, tasks, adapter, escrows, sends, signer, userOrders, date, reply>>
    /\ UNCHANGED suiVars

\* the execute operations under a clock that keeps advancing
LiveNext ==
    \/ ClockAdvances
    \/ \E userIntent \in UserIntents : buildEvmSwapOrder(userIntent)
    \/ \E t \in TaskIds, h \in OrderHashes :
          executeEvmSwapOrder(t, h, SignatureOf(t))
    \/ \E t \in TaskIds : executeEvm_SrcDeployed(t)
    \/ \E t \in TaskIds : executeEvm_DstDeployed(t)
    \/ \E t \in TaskIds : executeEvm_DstWaited(t)
    \/ \E t \in TaskIds : executeEvm_SrcWaited(t)
    \/ \E t \in TaskIds, userIntent \in UserIntents : executeSuiSwap(t, userIntent)
    \/ \E t \in TaskIds : executeSui_SrcDeployed(t)
    \/ \E t \in TaskIds : executeSui_DstDeployed(t)
    \/ \E t \in TaskIds : executeSui_DstWaited(t)
    \/ \E t \in TaskIds : executeSui_SrcWaited(t)
    \/ \E t \in TaskIds : execute_AdapterThrows(t)

\* an adapter call that does not throw returns, the continuation of an await
\* that has settled runs, and the setTimeout of waitUntilTime fires; nothing
\* obliges a request to arrive or an adapter call to throw
LiveFairness ==
    /\ WF_vars(ClockAdvances)
    /\ \A t \in TaskIds :
          /\ WF_vars(executeEvm_SrcDeployed(t))
          /\ WF_vars(executeEvm_DstDeployed(t))
          /\ WF_vars(executeEvm_DstWaited(t))
          /\ WF_vars(executeEvm_SrcWaited(t))
          /\ WF_vars(executeSui_SrcDeployed(t))
          /\ WF_vars(executeSui_DstDeployed(t))
          /\ WF_vars(executeSui_DstWaited(t))
          /\ WF_vars(executeSui_SrcWaited(t))

LiveSpec == Init /\ [][LiveNext]_vars /\ LiveFairness

\* ------------------------------------------------------------------------
\* Package htlc on Sui: escrow_dst, escrow_src, escrow_src_builder
\* ------------------------------------------------------------------------
\* errors.move
EInvalidSecret == 1
EContractExpired == 2
EContractNotExpired == 3
EOnlyTaker == 9
EOnlyMaker == 10
EBuilderExpired == 11
EBuilderNotExpired == 12

DST_PUBLIC_WITHDRAWAL_DURATION == HOUR * 2
SRC_PUBLIC_WITHDRAWAL_DURATION == HOUR * 2
SRC_PUBLIC_CANCELLATION_DURATION == HOUR * 4
BUILDER_TIMEOUT_DURATION == HOUR

\* the addresses that send transactions: the user, the resolver, and a
\* second resolver
Addresses == {"maker", "taker", "other"}

\* the addresses that own a ResolverCap (capabilities::grant_resolver_cap)
ResolverCaps == {"taker", "other"}

\* sui::hash::keccak256(&bytes)
hash_keccak256(bytes) == Digest(bytes)

\* the secrets a caller passes: the order's secret, and another one
SecretBytes == {BufferFromHex(TheSecret), BufferFromHex(<<"b2">>)}

\* the hash-lock the escrows are created with
TheHashLock == HashLockBytes(TheLock)

\* the token deposits and the safety deposits escrows are created with
TokenAmounts == {3}
SafetyAmounts == {1}

\* object::new(ctx): an id no object has had
ObjectIds == 1..MaxObjects
NextId == Cardinality(DOMAIN objects \cup DOMAIN consumed) + 1

\* escrow_dst::new_escrow_dst
new_escrow_dst(escrow_balance, safety_balance, maker, taker, hash_lock, current_time) ==
    [ type |-> "EscrowDst",
      maker |-> maker,
      taker |-> taker,
      balance |-> escrow_balance,
      safety_deposit |-> safety_balance,
      hash_lock |-> hash_lock,
      withdrawal_time |-> current_time + DST_WITHDRAWAL_DURATION,
      public_withdrawal_time |-> current_time + DST_PUBLIC_WITHDRAWAL_DURATION,
      cancellation_time |-> current_time + DST_CANCELLATION_DURATION,
      created_at |-> current_time ]

\* escrow_src::new_escrow_src
new_escrow_src(escrow_balance, safety_balance, maker, taker, hash_lock, current_time) ==
    [ type |-> "EscrowSrc",
      maker |-> maker,
      taker |-> taker,
      balance |-> escrow_balance,
      safety_deposit |-> safety_balance,
      hash_lock |-> hash_lock,
      withdrawal_time |-> current_time + SRC_WITHDRAWAL_START_DURATION,
      public_withdrawal_time |-> current_time + SRC_PUBLIC_WITHDRAWAL_DURATION,
      cancellation_time |-> current_time + SRC_CANCELLATION_DURATION,
      public_cancellation_time |-> current_time + SRC_PUBLIC_CANCELLATION_DURATION,
      created_at |-> current_time ]

\* the EscrowSrcBuilder of escrow_src_builder::create_src_builder
new_src_builder(user_deposit, maker, taker, hash_lock, current_time) ==
    [ type |-> "EscrowSrcBuilder",
      maker |-> maker,
      taker |-> taker,
      balance |-> user_deposit,
      hash_lock |-> hash_lock,
      created_at |-> current_time,
      timeout |-> current_time + BUILDER_TIMEOUT_DURATION ]

\* transfer::public_transfer(coin, to): T is the escrowed token, SUI the
\* coin of the safety deposit
Transfer(coin, amount, to) == [coin |-> coin, amount |-> amount, to |-> to]

\* what a call does: assert! aborts it with a code and without effect; a
\* call that returns has destructured its object, made its transfers and
\* perhaps shared a new object
Abort(code) == [abort |-> code, transfers |-> {}, created |-> None]
Return0(transfers, created) == [abort |-> 0, transfers |-> transfers, created |-> created]

\* escrow_dst::withdraw with current_time <= cancellation_time as its second
\* time check
escrow_dst_withdraw_UntilCancellation(escrow, secret, sender, current_time) ==
    IF ~(sender = escrow.taker) THEN Abort(EOnlyTaker)
    ELSE IF ~(current_time >= escrow.withdrawal_time) THEN Abort(EContractNotExpired)
    ELSE IF ~(current_time <= escrow.cancellation_time) THEN Abort(EContractExpired)
    ELSE IF ~(hash_keccak256(secret) = escrow.hash_lock) THEN Abort(EInvalidSecret)
    ELSE Return0({ Transfer("T", escrow.balance, escrow.maker),
                   Transfer("SUI", escrow.safety_deposit, sender) }, None)

\* escrow_dst::withdraw(escrow, secret, _cap, clock, ctx)
escrow_dst_withdraw(escrow, secret, sender, current_time) ==
    IF ~(sender = escrow.taker) THEN Abort(EOnlyTaker)
    ELSE IF ~(current_time >= escrow.withdrawal_time) THEN Abort(EContractNotExpired)
    ELSE IF ~(current_time < escrow.cancellation_time) THEN Abort(EContractExpired)
    ELSE IF ~(hash_keccak256(secret) = escrow.hash_lock) THEN Abort(EInvalidSecret)
    ELSE Return0({ Transfer("T", escrow.balance, escrow.maker),
                   Transfer("SUI", escrow.safety_deposit, sender) }, None)

\* escrow_dst::public_withdraw(escrow, secret, _cap, clock, ctx)
escrow_dst_public_withdraw(escrow, secret, sender, current_time) ==
    IF ~(current_time >= escrow.public_withdrawal_time) THEN Abort(EContractNotExpired)
    ELSE IF ~(current_time < escrow.cancellation_time) THEN Abort(EContractExpired)
    ELSE IF ~(hash_keccak256(secret) = escrow.hash_lock) THEN Abort(EInvalidSecret)
    ELSE Return0({ Transfer("T", escrow.balance, escrow.maker),
                   Transfer("SUI", escrow.safety_deposit, sender) }, None)

\* escrow_dst::cancel without its sender check
escrow_dst_cancel_AnySender(escrow, sender, current_time) ==
    IF ~(current_time >= escrow.cancellation_time) THEN Abort(EContractNotExpired)
    ELSE Return0({ Transfer("T", escrow.balance, escrow.taker),
                   Transfer("SUI", escrow.safety_deposit, sender) }, None)

\* escrow_dst::cancel(escrow, _cap, clock, ctx)
escrow_dst_cancel(escrow, sender, current_time) ==
    IF ~(sender = escrow.taker) THEN Abort(EOnlyTaker)
    ELSE IF ~(current_time >= escrow.cancellation_time) THEN Abort(EContractNotExpired)
    ELSE Return0({ Transfer("T", escrow.balance, escrow.taker),
                   Transfer("SUI", escrow.safety_deposit, sender) }, None)

\* escrow_src::withdraw_to with the safety deposit sent to the target
escrow_src_withdraw_to_DepositToTarget(escrow, secret, target, sender, current_time) ==
    IF ~(sender = escrow.taker) THEN Abort(EOnlyTaker)
    ELSE IF ~(current_time >= escrow.withdrawal_time) THEN Abort(EContractNotExpired)
    ELSE IF ~(current_time < escrow.cancellation_time) THEN Abort(EContractExpired)
    ELSE IF ~(hash_keccak256(secret) = escrow.hash_lock) THEN Abort(EInvalidSecret)
    ELSE Return0({ Transfer("T", escrow.balance, target),
                   Transfer("SUI", escrow.safety_deposit, target) }, None)

\* escrow_src::withdraw_to(escrow, secret, target, _cap, clock, ctx)
escrow_src_withdraw_to(escrow, secret, target, sender, current_time) ==
    IF ~(sender = escrow.taker) THEN Abort(EOnlyTaker)
    ELSE IF ~(current_time >= escrow.withdrawal_time) THEN Abort(EContractNotExpired)
    ELSE IF ~(current_time < escrow.cancellation_time) THEN Abort(EContractExpired)
    ELSE IF ~(hash_keccak256(secret) = escrow.hash_lock) THEN Abort(EInvalidSecret)
    ELSE Return0({ Transfer("T", escrow.balance, target),
                   Transfer("SUI", escrow.safety_deposit, sender) }, None)

\* escrow_src::withdraw(escrow, secret, resolver_cap, clock, ctx)
escrow_src_withdraw(escrow, secret, sender, current_time) ==
    escrow_src_withdraw_to(escrow, secret, sender, sender, current_time)

\* escrow_src::public_withdraw without its secret check
escrow_src_public_withdraw_AnySecret(escrow, secret, sender, current_time) ==
    IF ~(current_time >= escrow.public_withdrawal_time) THEN Abort(EContractNotExpired)
    ELSE IF ~(current_time < escrow.cancellation_time) THEN Abort(EContractExpired)
    ELSE Return0({ Transfer("T", escrow.balance, escrow.taker),
                   Transfer("SUI", escrow.safety_deposit, sender) }, None)

\* escrow_src::public_withdraw(escrow, secret, _cap, clock, ctx)
escrow_src_public_withdraw(escrow, secret, sender, current_time) ==
    IF ~(current_time >= escrow.public_withdrawal_time) THEN Abort(EContractNotExpired)
    ELSE IF ~(current_time < escrow.cancellation_time) THEN Abort(EContractExpired)
    ELSE IF ~(hash_keccak256(secret) = escrow.hash_lock) THEN Abort(EInvalidSecret)
    ELSE Return0({ Transfer("T", escrow.balance, escrow.taker),
                   Transfer("SUI", escrow.safety_deposit, sender) }, None)

\* escrow_src::cancel_internal(escrow, ctx)
cancel_internal(escrow, sender) ==
    Return0({ Transfer("T", escrow.balance, escrow.maker),
              Transfer("SUI", escrow.safety_deposit, sender) }, None)

\* escrow_src::cancel without its time check
escrow_src_cancel_AnyTime(escrow, sender, current_time) ==
    IF ~(sender = escrow.taker) THEN Abort(EOnlyTaker)
    ELSE cancel_internal(escrow, sender)

\* escrow_src::cancel(escrow, _cap, clock, ctx)
escrow_src_cancel(escrow, sender, current_time) ==
    IF ~(sender = escrow.taker) THEN Abort(EOnlyTaker)
    ELSE IF ~(current_time >= escrow.cancellation_time) THEN Abort(EContractNotExpired)
    ELSE cancel_internal(escrow, sender)

\* escrow_src::public_cancel(escrow, _cap, clock, ctx)
escrow_src_public_cancel(escrow, sender, current_time) ==
    IF ~(current_time >= escrow.public_cancellation_time) THEN Abort(EContractNotExpired)
    ELSE cancel_internal(escrow, sender)

\* escrow_src_builder::complete_escrow without its timeout check
complete_escrow_NoTimeout(builder, safety_deposit, sender, current_time) ==
    IF ~(sender = builder.taker) THEN Abort(EOnlyTaker)
    ELSE Return0({}, Some(new_escrow_src(builder.balance, safety_deposit, builder.maker,
                                         builder.taker, builder.hash_lock, current_time)))

\* escrow_src_builder::complete_escrow(builder, safety_deposit, resolver_cap, clock, ctx)
complete_escrow(builder, safety_deposit, sender, current_time) ==
    IF ~(sender = builder.taker) THEN Abort(EOnlyTaker)
    ELSE IF ~(current_time <= builder.timeout) THEN Abort(EBuilderExpired)
    ELSE Return0({}, Some(new_escrow_src(builder.balance, safety_deposit, builder.maker,
                                         builder.taker, builder.hash_lock, current_time)))

\* escrow_src_builder::refund_expired(builder, clock, ctx)
refund_expired(builder, sender, current_time) ==
    IF ~(current_time > builder.timeout) THEN Abort(EBuilderNotExpired)
    ELSE IF ~(sender = builder.maker) THEN Abort(EOnlyMaker)
    ELSE Return0({ Transfer("T", builder.balance, builder.maker) }, None)

\* a transaction whose call returns without object::delete(id)
Transact_KeepsObject(fn, id, sender, secret, target, result) ==
    /\ effects' = Some([ fn |-> fn, sender |-> sender, id |-> id, object |-> objects[id],
                         at |-> clock, secret |-> secret, target |-> target,
                         abort |-> result.abort, transfers |-> result.transfers ])
    /\ IF result.abort = 0
       THEN /\ objects' = IF IsSet(result.created)
                          THEN (NextId :> result.created[1]) @@ objects
                          ELSE objects
            /\ consumed' = IF id \in DOMAIN consumed
                           THEN [consumed EXCEPT ![id] = Append(@, fn)]
                           ELSE (id :> <<fn>>) @@ consumed
       ELSE UNCHANGED <<objects, consumed>>
    /\ UNCHANGED clock
    /\ UNCHANGED backendVars

\* a transaction that calls fn on the shared object id: aborted, it leaves
\* the chain as it was; returned, the object is deleted (object::delete(id))
\* and the object the call shared exists
Transact(fn, id, sender, secret, target, result) ==
    /\ effects' = Some([ fn |-> fn, sender |-> sender, id |-> id, object |-> objects[id],
                         at |-> clock, secret |-> secret, target |-> target,
                         abort |-> result.abort, transfers |-> result.transfers ])
    /\ IF result.abort = 0
       THEN /\ objects' =
                 LET rest == [i \in DOMAIN objects \ {id} |-> objects[i]]
                 IN  IF IsSet(result.created) THEN (NextId :> result.created[1]) @@ rest
                     ELSE rest
            /\ consumed' = IF id \in DOMAIN consumed
                           THEN [consumed EXCEPT ![id] = Append(@, fn)]
                           ELSE (id :> <<fn>>) @@ consumed
       ELSE UNCHANGED <<objects, consumed>>
    /\ UNCHANGED clock
    /\ UNCHANGED backendVars

\* a transaction that shares a new object (transfer::share_object)
Share(fn, sender, object) ==
    /\ NextId \in ObjectIds
    /\ objects' = (NextId :> object) @@ objects
    /\ effects' = Some([ fn |-> fn, sender |-> sender, id |-> NextId, object |-> object,
                         at |-> clock, secret |-> None, target |-> None,
                         abort |-> 0, transfers |-> {} ])
    /\ UNCHANGED <<clock, consumed>>
    /\ UNCHANGED backendVars

\* the object id is that of a shared object of the type the function takes
Takes(id, type) == id \in DOMAIN objects /\ objects[id].type = type

\* escrow_dst::create_dst_escrow, sent by the resolver
create_dst_escrow(sender, maker, amount, safety) ==
    /\ sender \in ResolverCaps
    /\ Share("escrow_dst::create_dst_escrow", sender,
             new_escrow_dst(amount, safety, maker, sender, TheHashLock, clock))

\* escrow_src_builder::create_src_builder, sent by the user
create_src_builder(sender, taker, amount) ==
    /\ sender \in Addresses
    /\ Share("escrow_src_builder::create_src_builder", sender,
             new_src_builder(amount, sender, taker, TheHashLock, clock))

call_escrow_dst_withdraw(id, sender, secret) ==
    /\ Takes(id, "EscrowDst") /\ sender \in ResolverCaps
    /\ Transact("escrow_dst::withdraw", id, sender, Some(secret), None,
                escrow_dst_withdraw(objects[id], secret, sender, clock))

call_escrow_dst_public_withdraw(id, sender, secret) ==
    /\ Takes(id, "EscrowDst") /\ sender \in ResolverCaps
    /\ Transact("escrow_dst::public_withdraw", id, sender, Some(secret), None,
                escrow_dst_public_withdraw(objects[id], secret, sender, clock))

call_escrow_dst_cancel(id, sender) ==
    /\ Takes(id, "EscrowDst") /\ sender \in ResolverCaps
    /\ Transact("escrow_dst::cancel", id, sender, None, None,
                escrow_dst_cancel(objects[id], sender, clock))

call_escrow_src_withdraw(id, sender, secret) ==
    /\ Takes(id, "EscrowSrc") /\ sender \in ResolverCaps
    /\ Transact("escrow_src::withdraw", id, sender, Some(secret), None,
                escrow_src_withdraw(objects[id], secret, sender, clock))

call_escrow_src_withdraw_to(id, sender, secret, target) ==
    /\ Takes(id, "EscrowSrc") /\ sender \in ResolverCaps
    /\ Transact("escrow_src::withdraw_to", id, sender, Some(secret), Some(target),
                escrow_src_withdraw_to(objects[id], secret, target, sender, clock))

call_escrow_src_public_withdraw(id, sender, secret) ==
    /\ Takes(id, "EscrowSrc") /\ sender \in ResolverCaps
    /\ Transact("escrow_src::public_withdraw", id, sender, Some(secret), None,
                escrow_src_public_withdraw(objects[id], secret, sender, clock))

call_escrow_src_cancel(id, sender) ==
    /\ Takes(id, "EscrowSrc") /\ sender \in ResolverCaps
    /\ Transact("escrow_src::cancel", id, sender, None, None,
                escrow_src_cancel(objects[id], sender, clock))

call_escrow_src_public_cancel(id, sender) ==
    /\ Takes(id, "EscrowSrc") /\ sender \in ResolverCaps
    /\ Transact("escrow_src::public_cancel", id, sender, None, None,
                escrow_src_public_cancel(objects[id], sender, clock))

call_complete_escrow(id, sender, safety) ==
    /\ Takes(id, "EscrowSrcBuilder") /\ sender \in ResolverCaps
    /\ NextId \in ObjectIds
    /\ Transact("escrow_src_builder::complete_escrow", id, sender, None, None,
                complete_escrow(objects[id], safety, sender, clock))

call_refund_expired(id, sender) ==
    /\ Takes(id, "EscrowSrcBuilder")
    /\ Transact("escrow_src_builder::refund_expired", id, sender, None, None,
                refund_expired(objects[id], sender, clock))

\* the instants at which a check of some object's functions changes its answer
Timelocks(object) ==
    IF object.type = "EscrowSrcBuilder" THEN {object.timeout, object.timeout + 1}
    ELSE IF object.type = "EscrowDst"
    THEN {object.withdrawal_time, object.public_withdrawal_time, object.cancellation_time}
    ELSE {object.withdrawal_time, object.public_withdrawal_time, object.cancellation_time,
          object.public_cancellation_time}

\* the Sui clock advances, to the next such instant
SuiClockAdvances ==
    LET later == {x \in UNION {Timelocks(objects[i]) : i \in DOMAIN objects} : x > clock}
    IN  /\ later # {}
        /\ clock' = CHOOSE x \in later : \A y \in later : x <= y
        /\ UNCHANGED <<objects, consumed, effects>>
        /\ UNCHANGED backendVars

\* the transactions on package htlc
MoveNext ==
    \/ SuiClockAdvances
    \/ \E amount \in TokenAmounts, safety \in SafetyAmounts :
          create_dst_escrow("taker", "maker", amount, safety)
    \/ \E amount \in TokenAmounts : create_src_builder("maker", "taker", amount)
    \/ \E id \in ObjectIds, sender \in Addresses, safety \in SafetyAmounts :
          call_complete_escrow(id, sender, safety)
    \/ \E id \in ObjectIds, sender \in Addresses : call_refund_expired(id, sender)
    \/ \E id \in ObjectIds, sender \in Addresses, secret \in SecretBytes :
          call_escrow_dst_withdraw(id, sender, secret)
    \/ \E id \in ObjectIds, sender \in Addresses, secret \in SecretBytes :
          call_escrow_dst_public_withdraw(id, sender, secret)
    \/ \E id \in ObjectIds, sender \in Addresses : call_escrow_dst_cancel(id, sender)
    \/ \E id \in ObjectIds, sender \in Addresses, secret \in SecretBytes :
          call_escrow_src_withdraw(id, sender, secret)
    \/ \E id \in ObjectIds, sender \in Addresses, secret \in SecretBytes, target \in Addresses :
          call_escrow_src_withdraw_to(id, sender, secret, target)
    \/ \E id \in ObjectIds, sender \in Addresses, secret \in SecretBytes :
          call_escrow_src_public_withdraw(id, sender, secret)
    \/ \E id \in ObjectIds, sender \in Addresses : call_escrow_src_cancel(id, sender)
    \/ \E id \in ObjectIds, sender \in Addresses : call_escrow_src_public_cancel(id, sender)

MoveSpec == Init /\ [][MoveNext]_vars

\* the methods of SwapOrderService that write the per-user index
IndexNext ==
    \/ StoreTick
    \/ \E h \in StoredHashes, a \in UserAddresses : createEvmSwapOrder(h, a)
    \/ \E a \in UserAddresses : store_getOrdersByUser(a)
    \/ clearAllOrders

IndexSpec == Init /\ [][IndexNext]_vars

\* the requests that build orders and look them up
BuildNext ==
    \/ \E userIntent \in BuildIntents, salt \in Draws, nonce \in Draws, sdkThrows \in BOOLEAN :
          post_eth_to_sui_build(userIntent, salt, nonce, sdkThrows)
    \/ \E userIntent \in BuildIntents, built \in BOOLEAN :
          post_sui_to_any_build(userIntent, built)
    \/ \E userIntent \in BuildIntents, nonce \in Draws : newSuiSwapOrder(userIntent, nonce)
    \/ \E h \in BuildHashes : get_order(h)

BuildSpec == Init /\ [][BuildNext]_vars

\* the relayer with several orders built: buildEvmSwapOrder has stored an
\* EVM -> Sui order under each of these hashes
PairHashes == 1..(MaxOrders + 1)
PairIntent == Intent(EVM_CHAIN, SUI_CHAIN, TheLock)

PairInit ==
    /\ orders = [h \in PairHashes |-> NewOrder(h, PairIntent, TRUE)]
    /\ evmSwapOrders = [h \in PairHashes |-> [signature |-> None]]
    /\ shared = PairHashes
    /\ tasks = [t \in TaskIds |-> IdleTask]
    /\ adapter = [h \in PairHashes |-> NoCalls]
    /\ escrows = {}
    /\ now = 0
    /\ sends = [s \in Senders |-> IdleSend]
    /\ signer = [count |-> 0, pool |-> {}]
    /\ userOrders = <<>>
    /\ date = 0
    /\ reply = None
    /\ SuiInit

PairNext ==
    \/ Tick
    \/ \E t \in TaskIds, h \in PairHashes :
          executeEvmSwapOrder(t, h, SignatureOf(t))
    \/ \E t \in TaskIds : executeEvm_SrcDeployed(t)
    \/ \E t \in TaskIds : executeEvm_DstDeployed(t)
    \/ \E t \in TaskIds : executeEvm_DstWaited(t)
    \/ \E t \in TaskIds : executeEvm_SrcWaited(t)
    \/ \E t \in TaskIds : execute_AdapterThrows(t)
    \/ \E t \in TaskIds, h \in PairHashes : revealSecret(t, h, TheSecret)
    \/ \E t \in TaskIds : reveal_SrcWithdrawn(t)
    \/ \E t \in TaskIds : reveal_DstWithdrawn(t)
    \/ \E t \in TaskIds : reveal_AdapterThrows(t)

PairSpec == PairInit /\ [][PairNext]_vars

\* the relayer with the client in front of it: the hash-lock of an intent is
\* the one generateHashLock derives from the client's secret
ClientNext ==
    \/ Tick
    \/ \E secret \in ClientSecrets :
          buildEvmSwapOrder(Intent(EVM_CHAIN, SUI_CHAIN, generateHashLock(secret)))
    \/ \E t \in TaskIds, h \in OrderHashes :
          executeEvmSwapOrder(t, h, SignatureOf(t))
    \/ \E t \in TaskIds : executeEvm_SrcDeployed(t)
    \/ \E t \in TaskIds : executeEvm_DstDeployed(t)
    \/ \E t \in TaskIds : executeEvm_DstWaited(t)
    \/ \E t \in TaskIds : executeEvm_SrcWaited(t)
    \/ \E t \in TaskIds : execute_AdapterThrows(t)
    \/ \E t \in TaskIds, h \in OrderHashes, secret \in RevealInputs :
          revealSecret(t, h, secret)
    \/ \E t \in TaskIds : reveal_SrcWithdrawn(t)
    \/ \E t \in TaskIds : reveal_DstWithdrawn(t)
    \/ \E t \in TaskIds : reveal_AdapterThrows(t)

ClientSpec == Init /\ [][ClientNext]_vars

\* the relayer after an execute that has returned: an EVM -> Sui order with
\* both escrows deployed and recorded by an earlier invocation (numbered 0)
DeployedOrder ==
    [NewOrder(1, PairIntent, TRUE) EXCEPT
        !.signature = Some(SignatureOf(0)),
        !.escrowSrcTxHash = Some(TxHash(0, "deploySrc")),
        !.escrowDstTxHash = Some(TxHash(0, "deployDst")),
        !.deployedAt = Some(0),
        !.evmEscrowAddress = Some(EscrowRef(0, "evm", "src")),
        !.suiEscrowObjectId = Some(EscrowRef(0, "sui", "dst"))]

DeployedInit ==
    /\ now = 0
    /\ orders = (1 :> DeployedOrder)
    /\ evmSwapOrders = (1 :> [signature |-> Some(SignatureOf(0))])
    /\ shared = {}
    /\ tasks = [t \in TaskIds |-> IdleTask]
    /\ adapter = [h \in OrderHashes |->
                    [NoCalls EXCEPT !["deploySrc"] = [invoked |-> 1, returned |-> 1, failed |-> 0],
                                    !["deployDst"] = [invoked |-> 1, returned |-> 1, failed |-> 0]]]
    /\ escrows = { [task |-> 0, order |-> 1, side |-> "src", chain |-> "evm",
                    hashLock |-> HashLockBytes(TheLock), deployedAt |-> 0,
                    withdrawalMs |-> srcWithdrawal * 1000,
                    cancellationMs |-> srcCancellation * 1000],
                   [task |-> 0, order |-> 1, side |-> "dst", chain |-> "sui",
                    hashLock |-> HashLockBytes(TheLock), deployedAt |-> 0,
                    withdrawalMs |-> DST_WITHDRAWAL_DURATION,
                    cancellationMs |-> DST_CANCELLATION_DURATION] }
    /\ sends = [s \in Senders |-> IdleSend]
    /\ signer = [count |-> 0, pool |-> {}]
    /\ userOrders = <<>>
    /\ date = 0
    /\ reply = None
    /\ SuiInit

RevealNext ==
    \/ Tick
    \/ \E t \in TaskIds, h \in OrderHashes, secret \in SecretInputs :
          revealSecret(t, h, secret)
    \/ \E t \in TaskIds : reveal_SrcWithdrawn(t)
    \/ \E t \in TaskIds : reveal_DstWithdrawn(t)
    \/ \E t \in TaskIds : reveal_AdapterThrows(t)

RevealSpec == DeployedInit /\ [][RevealNext]_vars

\* ------------------------------------------------------------------------
\* Properties
\* ------------------------------------------------------------------------
Executes == {"execEvm", "execSui"}

\* C1: within one order no deployEscrowDst call is invoked before a
\* deployEscrowSrc call for that order has returned its escrow, on both
\* execution paths: per order there are never more destination deployments
\* invoked than source deployments returned, and an invocation that has
\* invoked the destination deployment holds the source deployment's result.
C1_DeploySourceFirst ==
    /\ \A h \in OrderHashes :
          adapter[h]["deployDst"].invoked <= adapter[h]["deploySrc"].returned
    /\ \A t \in TaskIds :
          (tasks[t].kind \in Executes /\ "deployDst" \in tasks[t].calls)
              => IsSet(tasks[t].srcTx)

\* C1 happens: an invocation awaits the destination deployment it invoked
\* after its source deployment returned
C1_Witness ==
    \E t \in TaskIds :
        /\ tasks[t].kind \in Executes /\ tasks[t].pc = "awaitDeployDst"
        /\ adapter[tasks[t].h]["deployDst"].invoked = 1
        /\ adapter[tasks[t].h]["deploySrc"].returned = 1

\* C2: revealSecret invokes a withdraw operation for an order only when the
\* order record holds the deploy transaction of the source escrow and that
\* of the destination escrow, both of deployments that returned.
C2_WithdrawOnlyWhenBothDeployed ==
    \A h \in OrderHashes :
        adapter[h]["withdrawSrc"].invoked + adapter[h]["withdrawDst"].invoked > 0
            => /\ h \in DOMAIN orders
               /\ orders[h].escrowSrcTxHash # None
               /\ orders[h].escrowDstTxHash # None
               /\ adapter[h]["deploySrc"].returned > 0
               /\ adapter[h]["deployDst"].returned > 0

\* C2 happens: a revealSecret invocation has invoked a withdrawal
C2_Witness ==
    \E t \in TaskIds : tasks[t].kind = "reveal" /\ tasks[t].pc = "awaitWithdrawSrc"

\* C3: a revealSecret invocation whose secret hashes (keccak256 of its hex
\* decoding, as revealSecret computes it) to something else than the
\* order's hash-lock invokes no withdraw operation.
C3_WrongSecretNoWithdraw ==
    \A t \in TaskIds :
        ( /\ tasks[t].kind = "reveal"
          /\ tasks[t].h \in DOMAIN orders
          /\ Keccak256(BufferFromHex(tasks[t].arg[1]))
                # orders[tasks[t].h].userIntent.hashLock )
            => tasks[t].calls = {}

\* C3 happens: a wrong secret was revealed for an order with both escrow
\* deployments recorded, and was rejected
C3_Witness ==
    \E t \in TaskIds :
        /\ tasks[t].kind = "reveal" /\ tasks[t].pc = "done"
        /\ tasks[t].cause = "INVALID_SECRET"
        /\ tasks[t].h \in DOMAIN orders
        /\ orders[tasks[t].h].escrowSrcTxHash # None
        /\ orders[tasks[t].h].escrowDstTxHash # None
        /\ tasks[t].calls = {}

\* C4: within one order the source withdrawal is never invoked before a
\* destination withdrawal has been invoked and has returned.
C4_DestinationWithdrawalFirst ==
    \A h \in OrderHashes :
        adapter[h]["withdrawSrc"].invoked > 0 => adapter[h]["withdrawDst"].returned > 0

\* C5: the destination escrow of a swap can be cancelled earlier than its
\* source escrow, in both directions.
C5_DestinationClosesFirst ==
    \A s \in escrows, d \in escrows :
        (s.task = d.task /\ s.order = d.order /\ s.side = "src" /\ d.side = "dst")
            => d.cancellationMs < s.cancellationMs

\* C6: a revealSecret call with the matching secret, made while the
\* withdrawal time of an escrow of the order is not reached, ends at once
\* with the error ESCROW_NOT_DEPLOYED and invokes no withdraw operation.
C6_EarlyRevealRejected ==
    [][ \A t \in TaskIds :
          ( /\ tasks[t].kind = "idle" /\ tasks'[t].kind = "reveal"
            /\ tasks'[t].h \in DOMAIN orders
            /\ Keccak256(BufferFromHex(tasks'[t].arg[1]))
                  = orders[tasks'[t].h].userIntent.hashLock
            /\ \E e \in escrows : e.order = tasks'[t].h /\ now * 1000 < e.withdrawalMs )
              => /\ tasks'[t].pc = "done"
                 /\ tasks'[t].result = "ESCROW_NOT_DEPLOYED"
                 /\ tasks'[t].calls = {} ]_vars

\* C7: the destination escrow of an order carries the same hash-lock as the
\* source escrow of that order, the bytes of the hash-lock of the order's
\* user intent.
C7_SameHashLock ==
    \A s \in escrows, d \in escrows :
        (s.order = d.order /\ s.side = "src" /\ d.side = "dst")
            => /\ d.hashLock = s.hashLock
               /\ d.hashLock = BufferFromHex(Replace0x(orders[d.order].userIntent.hashLock))
               /\ Len(d.hashLock) = DigestLen

\* C7 happens: both escrows of a Sui -> EVM order are deployed
C7_Witness ==
    \E s \in escrows, d \in escrows :
        /\ s.order = d.order /\ s.side = "src" /\ d.side = "dst"
        /\ s.chain = "sui" /\ d.chain = "evm"

\* C8: when an execute invocation fails after a step of it obtained the
\* deploy transaction of the source escrow, the order record holds that
\* transaction hash.
C8_ObtainedHashesRecorded ==
    \A t \in TaskIds :
        ( /\ tasks[t].kind \in Executes /\ tasks[t].pc = "done"
          /\ tasks[t].result # "ok"
          /\ IsSet(tasks[t].srcTx) )
            => /\ tasks[t].h \in DOMAIN orders
               /\ orders[tasks[t].h].escrowSrcTxHash = tasks[t].srcTx

\* the source escrow reference of an order record
SrcEscrowRef(order) ==
    IF IsSuiChain(order.userIntent.srcChainId)
    THEN order.suiEscrowObjectId
    ELSE order.evmEscrowAddress

\* C9: once a destination deployment of an order has failed after a source
\* deployment of it returned, the order record holds the source escrow's
\* reference and no step invokes the source deployment for the order again.
C9_RetryResumesAtDestination ==
    [][ \A h \in OrderHashes :
          (adapter[h]["deployDst"].failed > 0 /\ adapter[h]["deploySrc"].returned > 0)
              => /\ h \in DOMAIN orders
                 /\ IsSet(SrcEscrowRef(orders[h]))
                 /\ adapter'[h]["deploySrc"].invoked = adapter[h]["deploySrc"].invoked ]_vars

\* C10: a revealSecret invocation that fails after one of its withdrawals
\* succeeded has withdrawn the destination only, leaves the order with the
\* destination withdraw transaction alone, and reports PARTIAL_WITHDRAWAL.
C10_PartialWithdrawalReported ==
    \A t \in TaskIds :
        ( /\ tasks[t].kind = "reveal" /\ tasks[t].pc = "done"
          /\ tasks[t].result # "ok"
          /\ (IsSet(tasks[t].srcTx) \/ IsSet(tasks[t].dstTx)) )
            => /\ IsSet(tasks[t].dstTx) /\ ~IsSet(tasks[t].srcTx)
               /\ IsSet(orders[tasks[t].h].escrowDstWithdrawTxHash)
               /\ ~IsSet(orders[tasks[t].h].escrowSrcWithdrawTxHash)
               /\ tasks[t].result = "PARTIAL_WITHDRAWAL"

\* the transaction references of an order record
TxRefs == {"escrowSrcTxHash", "escrowDstTxHash",
           "escrowSrcWithdrawTxHash", "escrowDstWithdrawTxHash"}

\* C11: no step removes or changes a transaction reference (deploy or
\* withdraw transaction hash) that an order record holds.
C11_RecordedRefsKept ==
    [][ \A h \in DOMAIN orders : \A f \in TxRefs :
          IsSet(orders[h][f]) => orders'[h][f] = orders[h][f] ]_vars

\* an invocation for order h has failed on an adapter call
AdapterFailed(h) ==
    \E u \in TaskIds : tasks[u].h = h /\ tasks[u].cause = "ADAPTER_ERROR"

\* C12: the step in which an adapter call of an invocation throws records
\* the failure on the order: the order record, until then without failure,
\* is changed by that step (state FAILED, error cause).
C12_FailureRecorded ==
    [][ \A t \in TaskIds :
          ( /\ tasks[t].pc # "done" /\ tasks'[t].pc = "done"
            /\ tasks'[t].cause = "ADAPTER_ERROR"
            /\ tasks[t].h \in DOMAIN orders
            /\ ~AdapterFailed(tasks[t].h) )
              => orders'[tasks[t].h] # orders[tasks[t].h] ]_vars

\* C13: a revealSecret call for an order of the store fails with
\* INVALID_SECRET when the secret does not hash to the order's hash-lock,
\* and with ESCROW_NOT_DEPLOYED when the secret matches and a deploy
\* transaction of the order is not recorded.
C13_SpecificRevealError ==
    [][ \A t \in TaskIds :
          ( /\ tasks[t].kind = "idle" /\ tasks'[t].kind = "reveal"
            /\ tasks'[t].h \in DOMAIN orders )
              => LET order == orders[tasks'[t].h]
                     matches == Keccak256(BufferFromHex(tasks'[t].arg[1]))
                                    = order.userIntent.hashLock
                     deployed == order.escrowSrcTxHash # None
                                    /\ order.escrowDstTxHash # None
                 IN  /\ ~matches => tasks'[t].result = "INVALID_SECRET"
                     /\ (matches /\ ~deployed)
                            => tasks'[t].result = "ESCROW_NOT_DEPLOYED" ]_vars

\* C14: revealSecret checks that the order exists, then the secret, then
\* the recorded deployments, and the first check that fails decides the
\* failure reported: a call for an unknown order fails with ORDER_NOT_FOUND
\* whatever the secret, and a call with a wrong secret for an order whose
\* deployments are not recorded fails with INVALID_SECRET.
C14_FirstFailedCheckReported ==
    [][ \A t \in TaskIds :
          (tasks[t].kind = "idle" /\ tasks'[t].kind = "reveal")
              => LET h == tasks'[t].h
                     wrong == Keccak256(BufferFromHex(tasks'[t].arg[1]))
                                  # orders[h].userIntent.hashLock
                     undeployed == orders[h].escrowSrcTxHash = None
                                     \/ orders[h].escrowDstTxHash = None
                 IN  /\ h \notin DOMAIN orders
                            => tasks'[t].result = "ORDER_NOT_FOUND"
                     /\ (h \in DOMAIN orders /\ wrong /\ undeployed)
                            => tasks'[t].result = "INVALID_SECRET" ]_vars

\* C15: a revealSecret call rejected because its secret does not hash to
\* the order's hash-lock ends at once and leaves the store as it was: no
\* field of the order record is modified, no withdraw transaction is set.
C15_RejectedRevealChangesNothing ==
    [][ \A t \in TaskIds :
          ( /\ tasks[t].kind = "idle" /\ tasks'[t].kind = "reveal"
            /\ tasks'[t].h \in DOMAIN orders
            /\ Keccak256(BufferFromHex(tasks'[t].arg[1]))
                  # orders[tasks'[t].h].userIntent.hashLock )
              => /\ tasks'[t].pc = "done"
                 /\ orders' = orders
                 /\ evmSwapOrders' = evmSwapOrders ]_vars

\* C15 happens: a wrong secret was rejected for an order whose escrows are
\* both recorded as deployed and that has no withdrawal recorded
C15_Witness ==
    \E t \in TaskIds :
        /\ tasks[t].kind = "reveal" /\ tasks[t].pc = "done"
        /\ tasks[t].h \in DOMAIN orders
        /\ Keccak256(BufferFromHex(tasks[t].arg[1]))
              # orders[tasks[t].h].userIntent.hashLock
        /\ orders[tasks[t].h].escrowSrcTxHash # None
        /\ orders[tasks[t].h].escrowDstTxHash # None
        /\ orders[tasks[t].h].escrowSrcWithdrawTxHash = None
        /\ orders[tasks[t].h].escrowDstWithdrawTxHash = None

\* C16: once an execute invocation has completed successfully, the order
\* record holds the references of both escrows and the deployment
\* timestamps of both, the source escrow's and the destination escrow's.
C16_BothDeploymentsRecorded ==
    \A t \in TaskIds :
        (tasks[t].kind \in Executes /\ tasks[t].pc = "done" /\ tasks[t].result = "ok")
            => LET order == orders[tasks[t].h]
               IN  /\ order.evmEscrowAddress # None
                   /\ order.suiEscrowObjectId # None
                   /\ \A e \in escrows :
                         (e.task = t /\ e.order = tasks[t].h)
                             => order.deployedAt = Some(e.deployedAt)

InFlight(s) == sends[s].pc \in {"sendTransaction", "wait"}

\* C18: no two sends in flight through the same signer use the same nonce.
C18_UniqueNonces ==
    \A s \in Senders, u \in Senders :
        (s # u /\ InFlight(s) /\ InFlight(u)) => sends[s].nonce # sends[u].nonce

\* an invocation that has started and has not ended
InProgress(t) == tasks[t].pc \notin {"idle", "done"}

\* C19: invocations of execute or of reveal_secret for the same order do not
\* interleave: at most one of them is in progress at a time, and no adapter
\* operation of the order is outstanding twice.
C19_SerializedPerOrder ==
    /\ \A t \in TaskIds, u \in TaskIds :
          (t # u /\ InProgress(t) /\ InProgress(u)) => tasks[t].h # tasks[u].h
    /\ \A h \in DOMAIN adapter : \A op \in Ops :
          adapter[h][op].invoked - adapter[h][op].returned - adapter[h][op].failed <= 1

\* C20: attaching a signature to an order that already has one does not
\* overwrite the stored signature: once set, the signature of the stored
\* EVM order never changes.
C20_StoredSignatureKept ==
    [][ \A h \in DOMAIN evmSwapOrders :
          IsSet(evmSwapOrders[h].signature)
            => evmSwapOrders'[h].signature = evmSwapOrders[h].signature ]_vars

\* C21: a store add* call with the value the record already holds is a
\* no-op: the order record after the call is the record before it.
C21_SameValueIsNoOp ==
    [][ \A h \in DOMAIN orders :
          /\ ( store_addEscrowSrcTxHash(h, TheTxHash)
               /\ orders[h].escrowSrcTxHash = Some(TheTxHash) )
                 => orders'[h] = orders[h]
          /\ ( store_addDeployedAt(h, TheDeployedAt)
               /\ orders[h].deployedAt = Some(TheDeployedAt) )
                 => orders'[h] = orders[h] ]_vars

\* C22: creating an order whose hash is already in the store fails: the
\* store is left as it was.
C22_DuplicateCreateFails ==
    [][ \A h \in DOMAIN orders : \A a \in UserAddresses :
          createEvmSwapOrder(h, a)
            => orders' = orders /\ userOrders' = userOrders ]_vars

\* C27: the orders getOrdersByUser returns are sorted by creation time,
\* newest first.
C27_ListedNewestFirst ==
    IsSet(reply) =>
        \A i \in 1..Len(reply[1].orders), j \in 1..Len(reply[1].orders) :
            i < j => reply[1].orders[i].createdAt >= reply[1].orders[j].createdAt

C27_Witness ==
    /\ IsSet(reply)
    /\ Len(reply[1].orders) = 2
    /\ reply[1].orders[1].createdAt > reply[1].orders[2].createdAt

\* C26: an operation that finds no resolver registered for a chain id fails
\* with UNSUPPORTED_CHAIN: that is the error its caller gets.
C26_UnsupportedChainReported ==
    \A t \in TaskIds :
        tasks[t].cause = "UNSUPPORTED_CHAIN" => tasks[t].result = "UNSUPPORTED_CHAIN"

\* the status the route of an invocation has sent: POST /eth_to_sui,
\* POST /:id/reveal and POST /sui_to_eth send 200 before they await the relayer
StatusSent(task) == IF task.kind = "idle" THEN 0 ELSE 200

\* C28: an execute or reveal request that names an order hash the store does
\* not have is answered with status 404.
C28_UnknownOrderIs404 ==
    \A t \in TaskIds :
        tasks[t].cause = "ORDER_NOT_FOUND" => StatusSent(tasks[t]) = 404

\* the orders whose record in either map a step changes
Modified ==
    {h \in DOMAIN orders : orders'[h] # orders[h]}
        \cup {h \in DOMAIN evmSwapOrders : evmSwapOrders'[h] # evmSwapOrders[h]}

C29_HashLockRoundTrip ==
    [][ \A t \in TaskIds, s \in ClientSecrets :
          ( /\ tasks[t].kind = "idle" /\ tasks'[t].kind = "reveal"
            /\ tasks'[t].h \in DOMAIN orders
            /\ orders[tasks'[t].h].userIntent.hashLock = generateHashLock(s) )
              => ( tasks'[t].cause = "INVALID_SECRET" <=> tasks'[t].arg # Some(s) ) ]_vars

\* a chain the relayer serves: one with a resolver, or Sui
Supported(chainId) == getResolver(chainId) \/ IsSuiChain(chainId)

\* an intent with a nonzero amount and distinct, supported chains
ValidIntent(userIntent) ==
    /\ userIntent.tokenAmount # 0
    /\ userIntent.srcChainId # userIntent.dstChainId
    /\ Supported(userIntent.srcChainId) /\ Supported(userIntent.dstChainId)

\* C23: a build for a valid intent produces an order hash no order in the
\* store has, also when the same intent is built again.
C23_UniqueOrderHash ==
    [][ \A userIntent \in BuildIntents :
          ValidIntent(userIntent) =>
            /\ \A salt \in Draws, nonce \in Draws :
                 ( post_eth_to_sui_build(userIntent, salt, nonce, FALSE)
                   /\ userIntent.srcChainId = EVM_CHAIN )
                     => reply'[1].orderHash[1] \notin DOMAIN orders
            /\ \A nonce \in Draws :
                 newSuiSwapOrder(userIntent, nonce)
                     => reply'[1].orderHash[1] \notin DOMAIN orders ]_vars

\* C24: a build answered for a valid intent, EVM-originated or
\* Sui-originated, has stored an order that a lookup by the produced order
\* hash retrieves.
C24_BuiltOrderRetrievable ==
    [][ \A userIntent \in BuildIntents :
          ( /\ ValidIntent(userIntent)
            /\ \/ /\ userIntent.srcChainId = EVM_CHAIN
                  /\ \E salt \in Draws, nonce \in Draws :
                        post_eth_to_sui_build(userIntent, salt, nonce, FALSE)
               \/ /\ IsSuiChain(userIntent.srcChainId)
                  /\ post_sui_to_any_build(userIntent, TRUE) )
              => /\ IsSet(reply'[1].orderHash)
                 /\ reply'[1].orderHash[1] \in DOMAIN orders' ]_vars

\* C25: a request to create an order for an intent with a zero amount, with
\* identical chains or with a chain outside the supported set is refused and
\* creates no order.
C25_InvalidIntentRejected ==
    [][ \A userIntent \in BuildIntents :
          ( /\ ~ValidIntent(userIntent)
            /\ \/ \E salt \in Draws, nonce \in Draws, sdkThrows \in BOOLEAN :
                     post_eth_to_sui_build(userIntent, salt, nonce, sdkThrows)
               \/ \E nonce \in Draws : newSuiSwapOrder(userIntent, nonce) )
              => /\ reply'[1].status = 400
                 /\ orders' = orders ]_vars

\* both withdrawals of an order are recorded
Withdrawn(order) ==
    IsSet(order.escrowSrcWithdrawTxHash) /\ IsSet(order.escrowDstWithdrawTxHash)

\* C37: once an order has both withdraw transaction hashes recorded, a
\* further revealSecret with the correct secret invokes no adapter withdraw
\* operation, and the recorded withdraw hashes stay as they are.
C37_SettledRevealIsNoOp ==
    [][ /\ \A t \in TaskIds :
             ( /\ tasks[t].kind = "idle" /\ tasks'[t].kind = "reveal"
               /\ tasks'[t].h \in DOMAIN orders
               /\ Withdrawn(orders[tasks'[t].h])
               /\ SecretMatches(orders[tasks'[t].h], tasks'[t].arg[1]) )
                 => adapter' = adapter
        /\ \A h \in DOMAIN orders :
             Withdrawn(orders[h])
                 => /\ orders'[h].escrowSrcWithdrawTxHash = orders[h].escrowSrcWithdrawTxHash
                    /\ orders'[h].escrowDstWithdrawTxHash = orders[h].escrowDstWithdrawTxHash ]_vars

\* C39: the per-user index is consistent with the store: every order hash
\* listed under a user address is that of a stored order of that user, and
\* is listed once.
C39_UserIndexConsistent ==
    \A a \in DOMAIN userOrders : \A i \in 1..Len(userOrders[a]) :
        LET h == userOrders[a][i]
        IN  /\ h \in DOMAIN orders
            /\ toLowerCase(orders[h].userIntent.userAddress) = a
            /\ \A j \in 1..Len(userOrders[a]) : j # i => userOrders[a][j] # h

\* an execute invocation that has called an adapter and has not ended
Executing(t) == tasks[t].kind \in {"execEvm", "execSui"} /\ InProgress(t)

\* the invocation ended because an adapter call threw
AdapterThrew(t) == tasks[t].pc = "done" /\ tasks[t].cause = "ADAPTER_ERROR"

\* the invocation has ended and its order holds both deploy tx refs
DeploysRecorded(t) ==
    /\ tasks[t].pc = "done"
    /\ tasks[t].h \in DOMAIN orders
    /\ IsSet(orders[tasks[t].h].escrowSrcTxHash)
    /\ IsSet(orders[tasks[t].h].escrowDstTxHash)

\* C40: with the clock advancing, an execute invocation none of whose
\* adapter calls fails eventually finishes with the source and the
\* destination escrow deploy tx ref recorded on its order.
C40_ExecuteFinishesRecorded ==
    \A t \in TaskIds : Executing(t) ~> (AdapterThrew(t) \/ DeploysRecorded(t))

\* ------------------------------------------------------------------------
\* Package htlc: the last transaction
\* ------------------------------------------------------------------------
PrivateWithdraws == {"escrow_dst::withdraw", "escrow_src::withdraw", "escrow_src::withdraw_to"}
PublicWithdraws == {"escrow_dst::public_withdraw", "escrow_src::public_withdraw"}
PrivateCancels == {"escrow_dst::cancel", "escrow_src::cancel"}
PublicCancels == {"escrow_src::public_cancel"}
Settlements == PrivateWithdraws \cup PublicWithdraws \cup PrivateCancels \cup PublicCancels

\* the last transaction called one of the functions fns
Called(fns) == IsSet(effects) /\ effects[1].fn \in fns

\* the transaction had no effect: nothing was transferred and its object is
\* as it was
Intact(tx) ==
    /\ tx.transfers = {}
    /\ tx.id \in DOMAIN objects
    /\ objects[tx.id] = tx.object

\* the transaction passes the sender check of its function, if it has one
SenderAllowed(tx) ==
    tx.fn \in PrivateWithdraws \cup PrivateCancels => tx.sender = tx.object.taker

\* the time from which the withdraw function of the transaction is open
WithdrawalOpens(tx) ==
    IF tx.fn \in PrivateWithdraws THEN tx.object.withdrawal_time
    ELSE tx.object.public_withdrawal_time

\* C31: a private withdraw on a Sui escrow returns only when
\* withdrawal_time <= current time < cancellation_time; sent by the taker
\* earlier it aborts with EContractNotExpired, and at or after
\* cancellation_time with EContractExpired.
C31_PrivateWithdrawWindow ==
    Called(PrivateWithdraws) =>
        LET tx == effects[1]
            escrow == tx.object
        IN  /\ tx.abort = 0 =>
                 escrow.withdrawal_time <= tx.at /\ tx.at < escrow.cancellation_time
            /\ (tx.sender = escrow.taker /\ tx.at < escrow.withdrawal_time)
                 => tx.abort = EContractNotExpired
            /\ (tx.sender = escrow.taker /\ tx.at >= escrow.cancellation_time)
                 => tx.abort = EContractExpired

C31_Witness ==
    /\ Called({"escrow_dst::withdraw"})
    /\ effects[1].sender = effects[1].object.taker
    /\ effects[1].at = effects[1].object.cancellation_time
    /\ hash_keccak256(effects[1].secret[1]) = effects[1].object.hash_lock
    /\ effects[1].abort = EContractExpired

\* C32: a private withdraw or a private cancel on a Sui escrow returns only
\* for the escrow's taker; sent by anyone else it aborts with EOnlyTaker and
\* the escrow keeps its funds.
C32_OnlyTaker ==
    Called(PrivateWithdraws \cup PrivateCancels) =>
        LET tx == effects[1]
        IN  /\ tx.abort = 0 => tx.sender = tx.object.taker
            /\ tx.sender # tx.object.taker => tx.abort = EOnlyTaker /\ Intact(tx)

C32_Witness ==
    /\ Called({"escrow_dst::cancel"})
    /\ effects[1].sender # effects[1].object.taker
    /\ effects[1].at >= effects[1].object.cancellation_time
    /\ effects[1].abort = EOnlyTaker

\* C33: a withdraw on a Sui escrow with a secret whose keccak256 is not the
\* escrow's hash_lock aborts and transfers nothing; when it passes the
\* sender and time checks, it aborts with EInvalidSecret.
C33_WrongSecretAborts ==
    Called(PrivateWithdraws \cup PublicWithdraws) =>
        LET tx == effects[1]
            escrow == tx.object
        IN  hash_keccak256(tx.secret[1]) # escrow.hash_lock =>
              /\ tx.abort # 0
              /\ Intact(tx)
              /\ ( /\ SenderAllowed(tx)
                   /\ WithdrawalOpens(tx) <= tx.at
                   /\ tx.at < escrow.cancellation_time ) => tx.abort = EInvalidSecret

C33_Witness ==
    /\ Called({"escrow_src::public_withdraw"})
    /\ hash_keccak256(effects[1].secret[1]) # effects[1].object.hash_lock
    /\ effects[1].abort = EInvalidSecret

\* C34: a cancel on a Sui escrow returns only at or after the escrow's
\* cancellation_time; an earlier cancel that passes the sender check aborts
\* with EContractNotExpired and leaves the escrow as it was.
C34_CancelNotBeforeCancellationTime ==
    Called(PrivateCancels \cup PublicCancels) =>
        LET tx == effects[1]
            escrow == tx.object
        IN  /\ tx.abort = 0 => tx.at >= escrow.cancellation_time
            /\ (SenderAllowed(tx) /\ tx.at < escrow.cancellation_time)
                 => tx.abort = EContractNotExpired /\ Intact(tx)

C34_Witness ==
    /\ Called({"escrow_src::cancel"})
    /\ effects[1].at = effects[1].object.cancellation_time
    /\ effects[1].abort = 0

\* C35 as stated: a private withdraw that returns pays out what the escrow
\* holds, from a destination escrow the tokens to the maker and the safety
\* deposit to the calling taker, from a source escrow the tokens and the
\* safety deposit to the taker.
C35_PrivateWithdrawPaysTaker ==
    (Called(PrivateWithdraws) /\ effects[1].abort = 0) =>
        LET tx == effects[1]
            escrow == tx.object
        IN  tx.transfers =
              IF escrow.type = "EscrowDst"
              THEN { Transfer("T", escrow.balance, escrow.maker),
                     Transfer("SUI", escrow.safety_deposit, escrow.taker) }
              ELSE { Transfer("T", escrow.balance, escrow.taker),
                     Transfer("SUI", escrow.safety_deposit, escrow.taker) }

\* C35, amended: a private withdraw that returns pays out what the escrow
\* holds, from a destination escrow the tokens to the maker and the safety
\* deposit to the calling taker, from a source escrow the safety deposit to
\* the taker and the tokens to the taker (withdraw) or to the target address
\* the taker names (withdraw_to).
C35_PrivateWithdrawPaysTarget ==
    (Called(PrivateWithdraws) /\ effects[1].abort = 0) =>
        LET tx == effects[1]
            escrow == tx.object
        IN  /\ tx.sender = escrow.taker
            /\ tx.transfers =
                 IF escrow.type = "EscrowDst"
                 THEN { Transfer("T", escrow.balance, escrow.maker),
                        Transfer("SUI", escrow.safety_deposit, escrow.taker) }
                 ELSE { Transfer("T", escrow.balance,
                                 IF tx.fn = "escrow_src::withdraw_to" THEN tx.target[1]
                                 ELSE escrow.taker),
                        Transfer("SUI", escrow.safety_deposit, escrow.taker) }

C35_Witness ==
    /\ Called({"escrow_src::withdraw_to"})
    /\ effects[1].abort = 0
    /\ effects[1].target[1] # effects[1].object.taker

\* C36: complete_escrow on a builder returns only at or before the builder's
\* timeout (sent by the taker later, it aborts with EBuilderExpired);
\* refund_expired returns only for the maker and after the timeout (earlier
\* it aborts with EBuilderNotExpired, later and sent by another address with
\* EOnlyMaker); at most one of the two returns for one builder.
C36_BuilderCompletedOrRefunded ==
    /\ Called({"escrow_src_builder::complete_escrow"}) =>
         LET tx == effects[1]
             builder == tx.object
         IN  /\ tx.abort = 0 => tx.at <= builder.timeout
             /\ (tx.sender = builder.taker /\ tx.at > builder.timeout)
                  => tx.abort = EBuilderExpired
    /\ Called({"escrow_src_builder::refund_expired"}) =>
         LET tx == effects[1]
             builder == tx.object
         IN  /\ tx.abort = 0 => tx.sender = builder.maker /\ tx.at > builder.timeout
             /\ tx.at <= builder.timeout => tx.abort = EBuilderNotExpired
             /\ (tx.at > builder.timeout /\ tx.sender # builder.maker)
                  => tx.abort = EOnlyMaker
    /\ \A id \in DOMAIN consumed :
         consumed[id][1] \in {"escrow_src_builder::complete_escrow",
                              "escrow_src_builder::refund_expired"}
           => Len(consumed[id]) = 1

C36_Witness ==
    /\ Called({"escrow_src_builder::complete_escrow"})
    /\ effects[1].sender = effects[1].object.taker
    /\ effects[1].at = effects[1].object.timeout + 1
    /\ effects[1].abort = EBuilderExpired

\* C38: each Sui escrow is settled at most once: an escrow on which a
\* withdraw, a public withdraw or a cancel has returned exists no more, no
\* second such call has returned on it, and the call that returned paid out
\* the escrow's tokens once and its safety deposit once.
C38_SettledOnce ==
    /\ \A id \in DOMAIN consumed :
         consumed[id][1] \in Settlements
           => Len(consumed[id]) = 1 /\ id \notin DOMAIN objects
    /\ (Called(Settlements) /\ effects[1].abort = 0) =>
         LET tx == effects[1]
         IN  /\ {t.amount : t \in {u \in tx.transfers : u.coin = "T"}} = {tx.object.balance}
             /\ {t.amount : t \in {u \in tx.transfers : u.coin = "SUI"}} = {tx.object.safety_deposit}
             /\ Cardinality(tx.transfers) = 2

C38_Witness ==
    /\ \E id \in DOMAIN consumed : consumed[id] = <<"escrow_dst::public_withdraw">>
    /\ Called({"escrow_dst::cancel"})

====
